---- MODULE Spec2Model ----
(***************************************************************************)
(* Model of the glaucoma target-pressure decision engine:                  *)
(*   backend/app/trbs_calculator.py  (TRBSCalculator)                      *)
(*   backend/app/risk_engine.py      (RiskEngine)                          *)
(*                                                                         *)
(* The engine is a library of pure functions.  The state of the model is   *)
(* one invocation: the function called, its arguments and, once the call   *)
(* has returned, its result; for the relational properties the invocation  *)
(* before it is kept as well.                                              *)
(*                                                                         *)
(* Pressures are Python floats in mmHg.  The model keeps them as integers  *)
(* in tenths of mmHg (32.0 mmHg is 320) and computes with exact decimal    *)
(* arithmetic; round(x, 1) is round-half-to-even on the exact value.       *)
(***************************************************************************)
EXTENDS Integers, Sequences, FiniteSets, TLC

VARIABLES call, prev, target_pressures, now, sessions

vars == <<call, prev, target_pressures, now, sessions>>

\* No invocation.
NoCall == [fn |-> "none", returned |-> FALSE]

\* An invocation that has not returned yet carries no result.
Pending == "pending"

\* The target_pressures table is empty, no request has been served and no
\* request is in flight.
NothingStored ==
    /\ prev = NoCall
    /\ target_pressures = <<>>
    /\ now = 0
    /\ sessions = <<>>

(***************************************************************************)
(* Bounds of the model.                                                    *)
(***************************************************************************)
\* Longest patient/ocular/systemic factor list handed to a domain function.
MaxListLen == 6
\* Most rows the target_pressures table holds.
MaxRecords == 2
\* Most requests served by the target routes; the clock ticks once a request.
MaxRequests == 4
\* Baseline pressures run over 0.5 mmHg steps up to MaxBaselineHalves / 2 mmHg.
MaxBaselineHalves == 80
\* Measured pressures run over 0.5 mmHg steps from 0 to MaxMeasuredHalves / 2
\* mmHg, targets from 0.5 to MaxTargetHalves / 2 mmHg.
MaxMeasuredHalves == 120
MaxTargetHalves == 100

\* Progression: measurements span MaxSteps steps of 0.5, visits are up to
\* MaxMonths months apart, and a history holds up to MaxHistory measurements.
MaxSteps == 12
MaxMonths == 20
MaxHistory == 2

\* Risk score: the pressure severities 0..MaxLowSeverity are all tried (every
\* fractional part of severity * 1.3), with some larger ones.
MaxLowSeverity == 12

(***************************************************************************)
(* Python helpers.                                                         *)
(***************************************************************************)
Min2(a, b) == IF a <= b THEN a ELSE b
Max2(a, b) == IF a >= b THEN a ELSE b
Abs(x) == IF x < 0 THEN -x ELSE x

\* dict.get(key, default)
Get(d, k, default) == IF k \in DOMAIN d THEN d[k] ELSE default

RECURSIVE SeqSum(_)
SeqSum(s) == IF s = <<>> THEN 0 ELSE Head(s) + SeqSum(Tail(s))

\* A value no scoring table knows, and Python's None (a missing value).
Unrecognized == "unrecognized"
None == "None"

(***************************************************************************)
(* Scoring tables of TRBSCalculator.                                       *)
(***************************************************************************)
AGE_SCORES == ("over_70" :> 1) @@ ("50_to_70" :> 2) @@ ("under_50" :> 3)

FAMILY_HISTORY_SCORES == ("absent" :> 0) @@ ("present" :> 1)

\* mmHg added to the measured baseline per number of medications.
AGM_ADJUSTMENT_TwoBelowOne ==
    ("0" :> 0) @@ ("1" :> 5) @@ ("2" :> 3) @@ ("3_or_more" :> 10)

AGM_ADJUSTMENT == ("0" :> 0) @@ ("1" :> 5) @@ ("2" :> 8) @@ ("3_or_more" :> 10)

CDR_SCORES ==
    ("0.5_or_less" :> 0) @@ ("0.6" :> 1) @@ ("0.7" :> 2) @@ ("0.8" :> 3)
    @@ ("0.9_or_more" :> 4)

NOTCHING_SCORES == ("absent" :> 0) @@ ("unipolar" :> 2) @@ ("bipolar" :> 3)

RNFL_DEFECT_SCORES == ("absent" :> 0) @@ ("present" :> 1)

DISC_HEMORRHAGE_SCORES == ("absent" :> 0) @@ ("present" :> 1)

MEAN_DEVIATION_SCORES_AllHigh ==
    ("hfa_not_done" :> 4) @@ ("greater_than_minus_6" :> 1)
    @@ ("minus_6_to_minus_12" :> 2) @@ ("minus_12_to_minus_20" :> 3)
    @@ ("less_than_minus_20" :> 4) @@ ("hfa_not_possible" :> 4)

MEAN_DEVIATION_SCORES ==
    ("hfa_not_done" :> 0) @@ ("greater_than_minus_6" :> 1)
    @@ ("minus_6_to_minus_12" :> 2) @@ ("minus_12_to_minus_20" :> 3)
    @@ ("less_than_minus_20" :> 4) @@ ("hfa_not_possible" :> 4)

CENTRAL_FIELD_SCORES == ("no" :> 0) @@ ("yes" :> 2)

CCT_SCORES == ("normal" :> 0) @@ ("thin" :> 1)

MYOPIA_SCORES == ("none" :> 0) @@ ("low_myopia" :> 1) @@ ("mod_high_myopia" :> 2)

OCULAR_MODIFIERS ==
    {"angle_recession", "pseudoexfoliation", "pigment_dispersion", "steroid_responder"}

SYSTEMIC_FACTORS ==
    {"low_ocular_perfusion", "migraine_vasospasm", "raynauds", "sleep_apnea",
     "diabetes_mellitus"}

PATIENT_FACTOR_SCORES == ("one_eyed_or_advanced_fellow" :> 2) @@ ("poor_compliance" :> 1)

\* Ceiling on the target, in tenths of mmHg, when the baseline exceeds 30 mmHg.
CDR_UPPER_CAP ==
    ("0.5_or_less" :> 180) @@ ("0.6" :> 180) @@ ("0.7" :> 160) @@ ("0.8" :> 140)
    @@ ("0.9_or_more" :> 120)

(***************************************************************************)
(* Domain scoring functions.                                               *)
(***************************************************************************)
\* The age term of domain A: an age the table does not know counts as 50-70.
AgeScore_DefaultZero(age) == Get(AGE_SCORES, age, 0)

AgeScore(age) == Get(AGE_SCORES, age, 2)

calculate_domain_a(age, family_history) ==
    LET score == AgeScore(age) + Get(FAMILY_HISTORY_SCORES, family_history, 0)
    IN  Max2(1, Min2(score, 4))

\* baseline_iop in tenths of mmHg.
calculate_domain_b(baseline_iop, num_agm) ==
    LET agm_adj == Get(AGM_ADJUSTMENT, num_agm, 0)
        untreated_iop == baseline_iop + 10 * agm_adj
    IN  IF untreated_iop < 220 THEN 0
        ELSE IF untreated_iop < 240 THEN 1
        ELSE IF untreated_iop < 260 THEN 2
        ELSE IF untreated_iop < 280 THEN 3
        ELSE 4

calculate_domain_c(cdr, notching, rnfl_defect, disc_hemorrhage) ==
    LET score == Get(CDR_SCORES, cdr, 0)
                 + Get(NOTCHING_SCORES, notching, 0)
                 + Get(RNFL_DEFECT_SCORES, rnfl_defect, 0)
                 + Get(DISC_HEMORRHAGE_SCORES, disc_hemorrhage, 0)
    IN  Min2(score, 9)

calculate_domain_d(mean_deviation, central_field) ==
    LET score == Get(MEAN_DEVIATION_SCORES, mean_deviation, 0)
                 + Get(CENTRAL_FIELD_SCORES, central_field, 0)
    IN  Min2(score, 6)

calculate_domain_e_NoCap(patient_factors) ==
    SeqSum([i \in 1..Len(patient_factors) |->
                Get(PATIENT_FACTOR_SCORES, patient_factors[i], 0)])

calculate_domain_e(patient_factors) ==
    LET score == SeqSum([i \in 1..Len(patient_factors) |->
                            IF patient_factors[i] \in DOMAIN PATIENT_FACTOR_SCORES
                            THEN PATIENT_FACTOR_SCORES[patient_factors[i]]
                            ELSE 0])
    IN  Min2(score, 3)

calculate_domain_f_ocular(cct, myopia, ocular_modifiers) ==
    LET score == Get(CCT_SCORES, cct, 0) + Get(MYOPIA_SCORES, myopia, 0)
                 + SeqSum([i \in 1..Len(ocular_modifiers) |->
                              IF ocular_modifiers[i] \in OCULAR_MODIFIERS THEN 1 ELSE 0])
    IN  Min2(score, 8)

calculate_domain_g_systemic(systemic_factors) ==
    LET score == SeqSum([i \in 1..Len(systemic_factors) |->
                            IF systemic_factors[i] \in SYSTEMIC_FACTORS THEN 1 ELSE 0])
    IN  Min2(score, 5)

(***************************************************************************)
(* Inputs of the domain scoring functions: every value a table knows, an   *)
(* unrecognized string and None; lists of up to MaxListLen entries drawn   *)
(* from two known factors and an unrecognized one, repeats included.       *)
(***************************************************************************)
Strangers == {Unrecognized, None}

AgeValues == DOMAIN AGE_SCORES \cup Strangers
FamilyHistoryValues == DOMAIN FAMILY_HISTORY_SCORES \cup Strangers
NumAgmValues == DOMAIN AGM_ADJUSTMENT \cup Strangers
CdrValues == DOMAIN CDR_SCORES \cup Strangers
NotchingValues == DOMAIN NOTCHING_SCORES \cup Strangers
RnflDefectValues == DOMAIN RNFL_DEFECT_SCORES \cup Strangers
DiscHemorrhageValues == DOMAIN DISC_HEMORRHAGE_SCORES \cup Strangers
MeanDeviationValues == DOMAIN MEAN_DEVIATION_SCORES \cup Strangers
CentralFieldValues == DOMAIN CENTRAL_FIELD_SCORES \cup Strangers
CctValues == DOMAIN CCT_SCORES \cup Strangers
MyopiaValues == DOMAIN MYOPIA_SCORES \cup Strangers

ListsOver(alphabet) == UNION {[1..n -> alphabet] : n \in 0..MaxListLen}

PatientFactorLists == ListsOver(DOMAIN PATIENT_FACTOR_SCORES \cup {Unrecognized})
OcularModifierLists == ListsOver({"angle_recession", "steroid_responder", Unrecognized})
SystemicFactorLists == ListsOver({"raynauds", "diabetes_mellitus", Unrecognized})

\* Baseline pressures in tenths of mmHg, on the 0.5 mmHg grid.
BaselineIops == {5 * k : k \in 0..MaxBaselineHalves}

(***************************************************************************)
(* Invocations of the domain scoring functions.  A call starts with its    *)
(* arguments bound and returns the score.                                  *)
(***************************************************************************)
DomainCall(fn, in) == [fn |-> fn, in |-> in, returned |-> FALSE, out |-> Pending]

DomainACalls ==
    {DomainCall("calculate_domain_a", [age |-> a, family_history |-> f]) :
        a \in AgeValues, f \in FamilyHistoryValues}

DomainBCalls ==
    {DomainCall("calculate_domain_b", [baseline_iop |-> b, num_agm |-> n]) :
        b \in BaselineIops, n \in NumAgmValues}

DomainCCalls ==
    {DomainCall("calculate_domain_c",
                [cdr |-> c, notching |-> n, rnfl_defect |-> r, disc_hemorrhage |-> d]) :
        c \in CdrValues, n \in NotchingValues, r \in RnflDefectValues,
        d \in DiscHemorrhageValues}

DomainDCalls ==
    {DomainCall("calculate_domain_d", [mean_deviation |-> m, central_field |-> c]) :
        m \in MeanDeviationValues, c \in CentralFieldValues}

DomainECalls ==
    {DomainCall("calculate_domain_e", [patient_factors |-> p]) : p \in PatientFactorLists}

DomainFCalls ==
    {DomainCall("calculate_domain_f_ocular",
                [cct |-> c, myopia |-> m, ocular_modifiers |-> o]) :
        c \in CctValues, m \in MyopiaValues, o \in OcularModifierLists}

DomainGCalls ==
    {DomainCall("calculate_domain_g_systemic", [systemic_factors |-> s]) :
        s \in SystemicFactorLists}

Starts(fn) == call.fn = fn /\ ~call.returned

Return(value) == call' = [call EXCEPT !.returned = TRUE, !.out = value]

ScoreDomainA ==
    /\ Starts("calculate_domain_a")
    /\ Return(calculate_domain_a(call.in.age, call.in.family_history))

ScoreDomainB ==
    /\ Starts("calculate_domain_b")
    /\ Return(calculate_domain_b(call.in.baseline_iop, call.in.num_agm))

ScoreDomainC ==
    /\ Starts("calculate_domain_c")
    /\ Return(calculate_domain_c(call.in.cdr, call.in.notching, call.in.rnfl_defect,
                                 call.in.disc_hemorrhage))

ScoreDomainD ==
    /\ Starts("calculate_domain_d")
    /\ Return(calculate_domain_d(call.in.mean_deviation, call.in.central_field))

ScoreDomainE ==
    /\ Starts("calculate_domain_e")
    /\ Return(calculate_domain_e(call.in.patient_factors))

ScoreDomainF ==
    /\ Starts("calculate_domain_f_ocular")
    /\ Return(calculate_domain_f_ocular(call.in.cct, call.in.myopia,
                                        call.in.ocular_modifiers))

ScoreDomainG ==
    /\ Starts("calculate_domain_g_systemic")
    /\ Return(calculate_domain_g_systemic(call.in.systemic_factors))

InitDomain ==
    /\ call \in DomainACalls \cup DomainBCalls \cup DomainCCalls \cup DomainDCalls
                 \cup DomainECalls \cup DomainFCalls \cup DomainGCalls
    /\ NothingStored

NextDomain ==
    \/ ScoreDomainA /\ UNCHANGED <<prev, target_pressures, now, sessions>>
    \/ ScoreDomainB /\ UNCHANGED <<prev, target_pressures, now, sessions>>
    \/ ScoreDomainC /\ UNCHANGED <<prev, target_pressures, now, sessions>>
    \/ ScoreDomainD /\ UNCHANGED <<prev, target_pressures, now, sessions>>
    \/ ScoreDomainE /\ UNCHANGED <<prev, target_pressures, now, sessions>>
    \/ ScoreDomainF /\ UNCHANGED <<prev, target_pressures, now, sessions>>
    \/ ScoreDomainG /\ UNCHANGED <<prev, target_pressures, now, sessions>>

\* The domain scoring functions called on their own.
SpecDomain == InitDomain /\ [][NextDomain]_vars

(***************************************************************************)
(* Risk tiers and the per-eye target.                                      *)
(***************************************************************************)
\* RISK_TIERS in the order the dictionary lists (and iterates) them.
TierOrder == <<"Low", "Moderate", "High", "Very High">>

RISK_TIERS ==
    ("Low" :> [min_score |-> 1, max_score |-> 6,
               reduction_min |-> 20, reduction_max |-> 25])
    @@ ("Moderate" :> [min_score |-> 7, max_score |-> 12,
                       reduction_min |-> 30, reduction_max |-> 35])
    @@ ("High" :> [min_score |-> 13, max_score |-> 18,
                   reduction_min |-> 40, reduction_max |-> 45])
    @@ ("Very High" :> [min_score |-> 19, max_score |-> 39,
                        reduction_min |-> 50, reduction_max |-> 50])

\* get_risk_tier with the lower edge of each band excluded.
get_risk_tier_StrictLower(trbs_score) ==
    LET hits == {i \in DOMAIN TierOrder :
                    /\ RISK_TIERS[TierOrder[i]].min_score < trbs_score
                    /\ trbs_score <= RISK_TIERS[TierOrder[i]].max_score}
    IN  IF hits = {} THEN "Very High"
        ELSE TierOrder[CHOOSE i \in hits : \A j \in hits : i <= j]

\* The first tier, in dictionary order, whose band holds the score; Very High
\* when no band does.
get_risk_tier(trbs_score) ==
    LET hits == {i \in DOMAIN TierOrder :
                    /\ RISK_TIERS[TierOrder[i]].min_score <= trbs_score
                    /\ trbs_score <= RISK_TIERS[TierOrder[i]].max_score}
    IN  IF hits = {} THEN "Very High"
        ELSE TierOrder[CHOOSE i \in hits : \A j \in hits : i <= j]

\* round(n / d) to the nearest integer, ties to the even one (d > 0).
RoundHalfEven(n, d) ==
    LET q == n \div d
        r == n % d
    IN  IF 2 * r > d \/ (2 * r = d /\ q % 2 = 1) THEN q + 1 ELSE q

\* round(baseline_iop * (1 - reduction_percentage / 100), 1), in tenths of mmHg.
calculate_target_iop(baseline_iop, reduction_percentage) ==
    RoundHalfEven(baseline_iop * (100 - reduction_percentage), 100)

\* get_upper_cap_for_cdr with a baseline of exactly 30 mmHg capped as well.
get_upper_cap_for_cdr_From30(cdr, baseline_iop) ==
    IF baseline_iop < 300 THEN <<>> ELSE <<Get(CDR_UPPER_CAP, cdr, 180)>>

\* An optional number is a sequence: <<>> is None, <<n>> is n.
get_upper_cap_for_cdr(cdr, baseline_iop) ==
    IF baseline_iop <= 300 THEN <<>> ELSE <<Get(CDR_UPPER_CAP, cdr, 180)>>

\* x or []
OrEmptyList(x) == IF x = None THEN <<>> ELSE x

ReductionApplied_Swapped(tier_config, use_aggressive_reduction) ==
    IF use_aggressive_reduction THEN tier_config.reduction_min
    ELSE tier_config.reduction_max

\* Lines 503-510: the tier's reduction, the maximum when aggressive.
ReductionApplied(tier_config, use_aggressive_reduction) ==
    IF use_aggressive_reduction THEN tier_config.reduction_max
    ELSE tier_config.reduction_min

\* Lines 515-518: the cup-disc ceiling on the percentage-based target.
ApplyUpperCap(upper_cap, calculated_target) ==
    IF upper_cap # <<>> /\ calculated_target > upper_cap[1]
    THEN upper_cap[1] ELSE calculated_target

\* The Very High clamp left out.
ApplyVeryHighClamp_Missing(risk_tier, calculated_target) == calculated_target

\* Lines 520-522: a Very High eye gets a target of at most 12 mmHg.
ApplyVeryHighClamp(risk_tier, calculated_target) ==
    IF risk_tier = "Very High" /\ calculated_target > 120 THEN 120
    ELSE calculated_target

\* a: the keyword arguments of calculate_single_eye but the eye and baseline.
calculate_single_eye(eye, baseline_iop, a) ==
    LET ocular_modifiers == OrEmptyList(a.ocular_modifiers)
        systemic_factors == OrEmptyList(a.systemic_factors)
        patient_factors == OrEmptyList(a.patient_factors)
        domain_a == calculate_domain_a(a.age, a.family_history)
        domain_b == calculate_domain_b(baseline_iop, a.num_agm)
        domain_c == calculate_domain_c(a.cdr, a.notching, a.rnfl_defect, a.disc_hemorrhage)
        domain_d == calculate_domain_d(a.mean_deviation, a.central_field)
        domain_e == calculate_domain_e(patient_factors)
        domain_f == calculate_domain_f_ocular(a.cct, a.myopia, ocular_modifiers)
        domain_g == calculate_domain_g_systemic(systemic_factors)
        sum == domain_a + domain_b + domain_c + domain_d + domain_e + domain_f + domain_g
        trbs_score == Max2(1, Min2(sum, 39))
        risk_tier == get_risk_tier(trbs_score)
        tier_config == RISK_TIERS[risk_tier]
        reduction_pct == ReductionApplied(tier_config, a.use_aggressive_reduction)
        raw_target == calculate_target_iop(baseline_iop, reduction_pct)
        upper_cap == get_upper_cap_for_cdr(a.cdr, baseline_iop)
        calculated_target ==
            ApplyVeryHighClamp(risk_tier, ApplyUpperCap(upper_cap, raw_target))
    IN  [eye |-> eye,
         trbs_score |-> trbs_score,
         risk_tier |-> risk_tier,
         reduction_percentage_min |-> tier_config.reduction_min,
         reduction_percentage_max |-> tier_config.reduction_max,
         reduction_applied |-> reduction_pct,
         baseline_iop |-> baseline_iop,
         calculated_target |-> calculated_target,
         final_target |-> calculated_target,
         domain_scores |->
            [demographic_risk |-> domain_a, baseline_iop |-> domain_b,
             structural_changes |-> domain_c, functional_changes |-> domain_d,
             patient_factors |-> domain_e, ocular_modifiers |-> domain_f,
             systemic_factors |-> domain_g]]

(***************************************************************************)
(* Inputs of calculate_single_eye.  Each domain gets argument tuples that  *)
(* reach its lowest and highest score, trip its cap and hold unrecognized  *)
(* values; the cup-disc ratio and the baseline, which also drive the       *)
(* ceiling, run over all brackets and both sides of 30 mmHg.               *)
(***************************************************************************)
DemographicInputs ==
    {<<"over_70", "absent">>, <<"50_to_70", Unrecognized>>, <<"under_50", "present">>,
     <<None, "present">>}

EyeNumAgmValues == {"0", "1"}

\* <<notching, rnfl_defect, disc_hemorrhage>>
StructuralInputs ==
    {<<"absent", "absent", "absent">>, <<"bipolar", "present", "present">>,
     <<Unrecognized, None, Unrecognized>>}

\* <<mean_deviation, central_field>>
FunctionalInputs ==
    {<<"hfa_not_done", "no">>, <<"minus_6_to_minus_12", None>>,
     <<"hfa_not_possible", "yes">>}

EyePatientFactorLists ==
    {<<>>, <<"poor_compliance">>,
     <<"one_eyed_or_advanced_fellow", "one_eyed_or_advanced_fellow", Unrecognized>>}

\* <<cct, myopia, ocular_modifiers>>
OcularInputs ==
    {<<"normal", "none", <<>>>>,
     <<"thin", "low_myopia", <<"pseudoexfoliation", Unrecognized>>>>,
     <<"thin", "mod_high_myopia",
       <<"angle_recession", "pseudoexfoliation", "pigment_dispersion",
         "steroid_responder", "steroid_responder", "angle_recession">>>>}

EyeSystemicFactorLists ==
    {<<>>,
     <<"low_ocular_perfusion", "migraine_vasospasm", "raynauds", "sleep_apnea",
       "diabetes_mellitus", "diabetes_mellitus">>}

\* Baselines in tenths of mmHg: each band of domain B, 30 mmHg and above it.
EyeBaselineIops == {100, 250, 300, 305, 320}

EyeArgs ==
    {[age |-> dem[1], family_history |-> dem[2], num_agm |-> agm,
      cdr |-> cdr, notching |-> str[1], rnfl_defect |-> str[2],
      disc_hemorrhage |-> str[3],
      mean_deviation |-> fun[1], central_field |-> fun[2],
      patient_factors |-> pf,
      cct |-> ocu[1], myopia |-> ocu[2], ocular_modifiers |-> ocu[3],
      systemic_factors |-> sf,
      use_aggressive_reduction |-> agg] :
        dem \in DemographicInputs, agm \in EyeNumAgmValues, cdr \in CdrValues \ {None},
        str \in StructuralInputs, fun \in FunctionalInputs,
        pf \in EyePatientFactorLists, ocu \in OcularInputs,
        sf \in EyeSystemicFactorLists, agg \in BOOLEAN}

EyeCalls ==
    {[fn |-> "calculate_single_eye",
      in |-> [eye |-> "OD", baseline_iop |-> b, a |-> a],
      returned |-> FALSE, out |-> Pending] :
        b \in EyeBaselineIops, a \in EyeArgs}

CalculateSingleEye ==
    /\ Starts("calculate_single_eye")
    /\ Return(calculate_single_eye(call.in.eye, call.in.baseline_iop, call.in.a))

InitEye == call \in EyeCalls /\ NothingStored

NextEye == CalculateSingleEye /\ UNCHANGED <<prev, target_pressures, now, sessions>>

\* calculate_single_eye called on its own.
SpecEye == InitEye /\ [][NextEye]_vars

(***************************************************************************)
(* calculate: both eyes and the legacy single-value view.                  *)
(* k holds the arguments of calculate under their own names; the legacy    *)
(* single-value arguments are optional (<<>> when not passed).             *)
(***************************************************************************)
Passed(opt) == opt # <<>>

\* Lines 600-618: a legacy single value, when passed, replaces both eyes'.
ResolveLegacy(k) ==
    [k EXCEPT
        !.cdr_od = IF Passed(k.cdr) THEN k.cdr[1] ELSE @,
        !.cdr_os = IF Passed(k.cdr) THEN k.cdr[1] ELSE @,
        !.notching_od = IF Passed(k.notching) THEN k.notching[1] ELSE @,
        !.notching_os = IF Passed(k.notching) THEN k.notching[1] ELSE @,
        !.rnfl_defect_od = IF Passed(k.rnfl_defect) THEN k.rnfl_defect[1] ELSE @,
        !.rnfl_defect_os = IF Passed(k.rnfl_defect) THEN k.rnfl_defect[1] ELSE @,
        !.disc_hemorrhage_od = IF Passed(k.disc_hemorrhage) THEN k.disc_hemorrhage[1] ELSE @,
        !.disc_hemorrhage_os = IF Passed(k.disc_hemorrhage) THEN k.disc_hemorrhage[1] ELSE @,
        !.mean_deviation_od = IF Passed(k.mean_deviation) THEN k.mean_deviation[1] ELSE @,
        !.mean_deviation_os = IF Passed(k.mean_deviation) THEN k.mean_deviation[1] ELSE @,
        !.central_field_od = IF Passed(k.central_field) THEN k.central_field[1] ELSE @,
        !.central_field_os = IF Passed(k.central_field) THEN k.central_field[1] ELSE @,
        !.cct_od = IF Passed(k.cct) THEN k.cct[1] ELSE @,
        !.cct_os = IF Passed(k.cct) THEN k.cct[1] ELSE @,
        !.myopia_od = IF Passed(k.myopia) THEN k.myopia[1] ELSE @,
        !.myopia_os = IF Passed(k.myopia) THEN k.myopia[1] ELSE @,
        !.ocular_modifiers_od = IF Passed(k.ocular_modifiers) THEN k.ocular_modifiers[1] ELSE @,
        !.ocular_modifiers_os = IF Passed(k.ocular_modifiers) THEN k.ocular_modifiers[1] ELSE @]

\* The right eye's arguments with the cup-disc ratio taken from the left eye.
OdArguments_OsCdr(k) ==
    [age |-> k.age, family_history |-> k.family_history, num_agm |-> k.num_agm,
     cdr |-> k.cdr_os, notching |-> k.notching_od, rnfl_defect |-> k.rnfl_defect_od,
     disc_hemorrhage |-> k.disc_hemorrhage_od,
     mean_deviation |-> k.mean_deviation_od, central_field |-> k.central_field_od,
     patient_factors |-> OrEmptyList(k.patient_factors),
     cct |-> k.cct_od, myopia |-> k.myopia_od,
     ocular_modifiers |-> OrEmptyList(k.ocular_modifiers_od),
     systemic_factors |-> OrEmptyList(k.systemic_factors),
     use_aggressive_reduction |-> k.use_aggressive_reduction]

\* Lines 627-645: what the right eye (OD) is calculated from.
OdArguments(k) ==
    [age |-> k.age, family_history |-> k.family_history, num_agm |-> k.num_agm,
     cdr |-> k.cdr_od, notching |-> k.notching_od, rnfl_defect |-> k.rnfl_defect_od,
     disc_hemorrhage |-> k.disc_hemorrhage_od,
     mean_deviation |-> k.mean_deviation_od, central_field |-> k.central_field_od,
     patient_factors |-> OrEmptyList(k.patient_factors),
     cct |-> k.cct_od, myopia |-> k.myopia_od,
     ocular_modifiers |-> OrEmptyList(k.ocular_modifiers_od),
     systemic_factors |-> OrEmptyList(k.systemic_factors),
     use_aggressive_reduction |-> k.use_aggressive_reduction]

\* Lines 648-666: what the left eye (OS) is calculated from.
OsArguments(k) ==
    [age |-> k.age, family_history |-> k.family_history, num_agm |-> k.num_agm,
     cdr |-> k.cdr_os, notching |-> k.notching_os, rnfl_defect |-> k.rnfl_defect_os,
     disc_hemorrhage |-> k.disc_hemorrhage_os,
     mean_deviation |-> k.mean_deviation_os, central_field |-> k.central_field_os,
     patient_factors |-> OrEmptyList(k.patient_factors),
     cct |-> k.cct_os, myopia |-> k.myopia_os,
     ocular_modifiers |-> OrEmptyList(k.ocular_modifiers_os),
     systemic_factors |-> OrEmptyList(k.systemic_factors),
     use_aggressive_reduction |-> k.use_aggressive_reduction]

calculate(k) ==
    LET r == ResolveLegacy(k)
        od_result == calculate_single_eye("OD", r.baseline_iop_od, OdArguments(r))
        os_result == calculate_single_eye("OS", r.baseline_iop_os, OsArguments(r))
        max_trbs == Max2(od_result.trbs_score, os_result.trbs_score)
        risk_tier == get_risk_tier(max_trbs)
        tier_config == RISK_TIERS[risk_tier]
    IN  [od_result |-> od_result,
         os_result |-> os_result,
         trbs_score |-> max_trbs,
         risk_tier |-> risk_tier,
         reduction_percentage_min |-> tier_config.reduction_min,
         reduction_percentage_max |-> tier_config.reduction_max,
         target_iop_od |-> od_result.calculated_target,
         target_iop_os |-> os_result.calculated_target,
         baseline_iop_od |-> k.baseline_iop_od,
         baseline_iop_os |-> k.baseline_iop_os,
         domain_scores |-> od_result.domain_scores]

(***************************************************************************)
(* Inputs of calculate: a few eyes, from healthy to advanced, a few shared *)
(* profiles, and the legacy single values passed or not.                   *)
(***************************************************************************)
\* <<baseline_iop, cdr, notching, rnfl_defect, disc_hemorrhage, mean_deviation,
\*   central_field, cct, myopia, ocular_modifiers>>
EyeProfiles ==
    {<<210, "0.5_or_less", "absent", "absent", "absent", "hfa_not_done", "no",
       "normal", "none", <<>>>>,
     <<250, "0.7", "unipolar", "absent", "present", "minus_6_to_minus_12", "no",
       "thin", "low_myopia", <<"pseudoexfoliation">>>>,
     <<320, "0.9_or_more", "bipolar", "present", "present", "hfa_not_possible", "yes",
       "thin", "mod_high_myopia", <<"angle_recession", "steroid_responder">>>>,
     <<320, Unrecognized, None, "absent", None, "greater_than_minus_6", Unrecognized,
       None, "none", <<Unrecognized>>>>}

\* <<age, family_history, num_agm, patient_factors, systemic_factors>>
SharedProfiles ==
    {<<"over_70", "absent", "0", <<>>, <<>>>>,
     <<"50_to_70", "present", "1", <<"poor_compliance">>, <<"raynauds">>>>,
     <<"under_50", "present", "3_or_more", <<"one_eyed_or_advanced_fellow">>,
       <<"diabetes_mellitus", "sleep_apnea", "migraine_vasospasm">>>>}

\* <<cdr, notching, rnfl_defect, disc_hemorrhage, mean_deviation, central_field,
\*   cct, myopia, ocular_modifiers>>, each optional
LegacyProfiles ==
    {<<<<>>, <<>>, <<>>, <<>>, <<>>, <<>>, <<>>, <<>>, <<>>>>,
     <<<<"0.8">>, <<>>, <<"present">>, <<>>, <<"less_than_minus_20">>, <<>>,
       <<"thin">>, <<>>, <<<<"pigment_dispersion">>>>>>}

CalculateArgs ==
    {[baseline_iop_od |-> od[1], baseline_iop_os |-> os[1],
      age |-> sh[1], family_history |-> sh[2], num_agm |-> sh[3],
      cdr_od |-> od[2], notching_od |-> od[3], rnfl_defect_od |-> od[4],
      disc_hemorrhage_od |-> od[5],
      cdr_os |-> os[2], notching_os |-> os[3], rnfl_defect_os |-> os[4],
      disc_hemorrhage_os |-> os[5],
      mean_deviation_od |-> od[6], central_field_od |-> od[7],
      mean_deviation_os |-> os[6], central_field_os |-> os[7],
      patient_factors |-> sh[4],
      cct_od |-> od[8], myopia_od |-> od[9], ocular_modifiers_od |-> od[10],
      cct_os |-> os[8], myopia_os |-> os[9], ocular_modifiers_os |-> os[10],
      systemic_factors |-> sh[5],
      use_aggressive_reduction |-> agg,
      cdr |-> lg[1], notching |-> lg[2], rnfl_defect |-> lg[3],
      disc_hemorrhage |-> lg[4], mean_deviation |-> lg[5], central_field |-> lg[6],
      cct |-> lg[7], myopia |-> lg[8], ocular_modifiers |-> lg[9]] :
        od \in EyeProfiles, os \in EyeProfiles, sh \in SharedProfiles,
        agg \in BOOLEAN, lg \in LegacyProfiles}

CalculateCalls ==
    {[fn |-> "calculate", in |-> k, returned |-> FALSE, out |-> Pending] :
        k \in CalculateArgs}

Calculate ==
    /\ Starts("calculate")
    /\ Return(calculate(call.in))
    /\ UNCHANGED <<prev, target_pressures, now, sessions>>

\* The caller calculates once more, with whatever arguments.
CalculateAgain ==
    /\ call.fn = "calculate" /\ call.returned
    /\ prev = NoCall
    /\ prev' = call /\ UNCHANGED <<target_pressures, now, sessions>>
    /\ call' \in CalculateCalls

InitCalculate == call \in CalculateCalls /\ NothingStored

NextCalculate == Calculate \/ CalculateAgain

\* calculate called once, and once again.
SpecCalculate == InitCalculate /\ [][NextCalculate]_vars

(***************************************************************************)
(* RiskEngine.evaluate_iop_status.  Pressures and an explicit tolerance    *)
(* are in tenths of mmHg; the function works in thousandths, where the     *)
(* 15 % tolerance of a target is a whole number, and the weight in         *)
(* hundredths.                                                             *)
(*                                                                         *)
(* The severities are int() of a product of binary floats.  Where the      *)
(* exact product is a whole number the float may fall just short of it     *)
(* (0.2 and 0.15 have no exact binary form), and int() then gives the      *)
(* next integer toward zero: evaluate_iop_status(30.0, 25.0) returns       *)
(* severity 1 for the exact product 2.0.  Which way a given product falls  *)
(* is not modelled: both outcomes are.                                     *)
(***************************************************************************)
\* int(n / d): truncation toward zero (d > 0).
TruncDiv(n, d) == IF n >= 0 THEN n \div d ELSE -((-n) \div d)

\* What int(x) can give for the float x computed for the exact value n / d.
FloatInt(n, d) ==
    IF n % d = 0 /\ n # 0
    THEN {TruncDiv(n, d), TruncDiv(n, d) - (IF n > 0 THEN 1 ELSE -1)}
    ELSE {TruncDiv(n, d)}

\* Lines 47-48: max(2.0, target_iop * 0.15), in thousandths of mmHg.
DefaultTolerance(target_iop) == Max2(2000, 15 * target_iop)

\* The comparison of line 54 with the boundary excluded.
WithinTolerance_Strict(abs_difference, tolerance) == abs_difference < tolerance

\* Line 54: the tolerance band includes its edge.
WithinTolerance(abs_difference, tolerance) == abs_difference <= tolerance

\* The weight rising with the target instead of falling.
AboveSeverity_WeightRising(overage, target_iop) ==
    LET weight == 300 - (180 - target_iop) * 2
    IN  {Min2(30, v) : v \in FloatInt(overage * weight, 100000)}

\* Lines 62-64: the severities min(30, int(overage * weight)) can be; overage
\* in thousandths of mmHg.
AboveSeverity(overage, target_iop) ==
    LET weight == 300 + (180 - target_iop) * 2    \* 3.0 + (18 - target) * 0.2
    IN  {Min2(30, v) : v \in FloatInt(overage * weight, 100000)}

\* Lines 70-71: the severities min(20, int(underage * 2)) can be; underage in
\* thousandths of mmHg.
BelowSeverity(underage) == {Min2(20, v) : v \in FloatInt(underage * 2, 1000)}

\* The (status, severity) pairs the call can return.
\* tolerance: <<>> when not passed, else <<tenths of mmHg>>.
evaluate_iop_status(measured_iop, target_iop, tolerance) ==
    LET tol == IF tolerance = <<>> THEN DefaultTolerance(target_iop)
               ELSE 100 * tolerance[1]
        difference == 100 * (measured_iop - target_iop)
        abs_difference == Abs(difference)
    IN  IF WithinTolerance(abs_difference, tol) THEN {<<"WITHIN_TARGET", 0>>}
        ELSE IF difference > tol
             THEN {<<"ABOVE_TARGET", v>> : v \in AboveSeverity(difference - tol, target_iop)}
             ELSE {<<"BELOW_TARGET", v>> : v \in BelowSeverity(abs_difference - tol)}

\* Measured pressures 0..60 mmHg and targets the schema stores (0 < t <= 50),
\* in steps of 0.5 mmHg: such pressures and their differences are exact binary
\* floats, so the comparisons with the tolerance are those of the decimals.
MeasuredIops == {5 * k : k \in 0..MaxMeasuredHalves}
TargetIops == {5 * k : k \in 1..MaxTargetHalves}

IopCalls ==
    {[fn |-> "evaluate_iop_status",
      in |-> [measured_iop |-> m, target_iop |-> t, tolerance |-> tol],
      returned |-> FALSE, out |-> Pending] :
        m \in MeasuredIops, t \in TargetIops, tol \in {<<>>, <<10>>}}

EvaluateIopStatus ==
    /\ Starts("evaluate_iop_status")
    /\ \E result \in evaluate_iop_status(call.in.measured_iop, call.in.target_iop,
                                          call.in.tolerance) :
          Return(result)

InitIop == call \in IopCalls /\ NothingStored

NextIop == EvaluateIopStatus /\ UNCHANGED <<prev, target_pressures, now, sessions>>

\* evaluate_iop_status called on its own.
SpecIop == InitIop /\ [][NextIop]_vars

\* Targets for a pair of evaluations.  On the 0.5 mmHg grid two calls have
\* the same excess only where their tolerances differ by a multiple of 0.5:
\* targets up to 13 (tolerance 2.0), 20 (3.0), 30 (4.5), 40 (6.0); 14 is the
\* target of the documented comparison.
PairTargetIops == {80, 100, 130, 140, 200, 300, 400}

IopPairCalls ==
    {[fn |-> "evaluate_iop_status",
      in |-> [measured_iop |-> m, target_iop |-> t, tolerance |-> <<>>],
      returned |-> FALSE, out |-> Pending] :
        m \in MeasuredIops, t \in PairTargetIops}

\* The caller evaluates once more, another measurement against another target.
EvaluateIopStatusAgain ==
    /\ call.fn = "evaluate_iop_status" /\ call.returned
    /\ prev = NoCall
    /\ prev' = call /\ UNCHANGED <<target_pressures, now, sessions>>
    /\ call' \in IopPairCalls

InitIopPair == call \in IopPairCalls /\ NothingStored

NextIopPair == (EvaluateIopStatus /\ UNCHANGED <<prev, target_pressures, now, sessions>>) \/ EvaluateIopStatusAgain

\* evaluate_iop_status called once, and once again.
SpecIopPair == InitIopPair /\ [][NextIopPair]_vars

(***************************************************************************)
(* RiskEngine.assess_rnfl_progression and assess_vf_progression.           *)
(* Thicknesses (microns) and mean deviations (dB) are in tenths, months    *)
(* are integers.  The annual change is 12 * delta / (10 * months), so the  *)
(* thresholds are compared after cross-multiplying.  Values move in steps  *)
(* of 0.5, where the float comparisons agree with the decimal ones.        *)
(***************************************************************************)
\* A single earlier measurement taken for a trend.
NoTrend_SingleCounts(previous_measurements) == Len(previous_measurements) < 1

\* Line 87 / 122: not previous_measurements or len(previous_measurements) < 2
NoTrend(previous_measurements) ==
    previous_measurements = <<>> \/ Len(previous_measurements) < 2

\* previous_measurements[-1]
LastOf(s) == s[Len(s)]

\* max(months_between_visits, 1)
MonthsFloor(months_between_visits) == Max2(months_between_visits, 1)

\* Lines 93-99, on delta = current - last previous (tenths) over months >= 1:
\* annual_loss = abs(delta / months * 12), severity int(annual_loss * 5).
RnflOutcomes(delta, months) ==
    IF 12 * Abs(delta) > 20 * months
    THEN {<<"PROGRESSIVE", Min2(25, v)>> : v \in FloatInt(6 * Abs(delta), months)}
    ELSE IF 12 * Abs(delta) > 10 * months THEN {<<"MARGINAL", 10>>}
    ELSE {<<"STABLE", 0>>}

\* The (status, severity) pairs the call can return.
assess_rnfl_progression(current_rnfl, previous_measurements, months_between_visits) ==
    IF NoTrend(previous_measurements) THEN {<<"BASELINE", 0>>}
    ELSE RnflOutcomes(current_rnfl - LastOf(previous_measurements),
                      MonthsFloor(months_between_visits))

\* The PROGRESSIVE threshold taken to include -1.0.
VfOutcomes_ProgressiveFromOne(delta, months) ==
    IF 12 * delta <= -10 * months
    THEN {<<"PROGRESSIVE", Min2(25, v)>> : v \in FloatInt(12 * Abs(delta), months)}
    ELSE IF 24 * delta < -10 * months THEN {<<"MARGINAL", 10>>}
    ELSE {<<"STABLE", 0>>}

\* Lines 131-137: annual_change = delta / months * 12, severity
\* int(abs(annual_change) * 10).
VfOutcomes(delta, months) ==
    IF 12 * delta < -10 * months
    THEN {<<"PROGRESSIVE", Min2(25, v)>> : v \in FloatInt(12 * Abs(delta), months)}
    ELSE IF 24 * delta < -10 * months THEN {<<"MARGINAL", 10>>}
    ELSE {<<"STABLE", 0>>}

\* The (status, severity) pairs the call can return.
assess_vf_progression(current_md, previous_measurements, months_between_visits) ==
    IF NoTrend(previous_measurements) THEN {<<"BASELINE", 0>>}
    ELSE VfOutcomes(current_md - LastOf(previous_measurements),
                    MonthsFloor(months_between_visits))

\* Thicknesses 70.0 .. 70.0 + MaxSteps / 2 microns, mean deviations
\* -3.0 .. -(3.0 + MaxSteps / 2) dB, months -1 .. MaxMonths.
RnflValues == {700 + 5 * k : k \in 0..MaxSteps}
MdValues == {-(30 + 5 * k) : k \in 0..MaxSteps}
MonthValues == (-1)..MaxMonths

\* Lists of up to MaxHistory earlier measurements.
Histories(values) == UNION {[1..n -> values] : n \in 0..MaxHistory}

\* A pending call of fn on measurements drawn from values.
StartsProgression(fn, values) ==
    \E c \in values, h \in Histories(values), m \in MonthValues :
        call = [fn |-> fn,
                in |-> [current |-> c, previous_measurements |-> h,
                        months_between_visits |-> m],
                returned |-> FALSE, out |-> Pending]

AssessRnflProgression ==
    /\ Starts("assess_rnfl_progression")
    /\ \E result \in assess_rnfl_progression(call.in.current, call.in.previous_measurements,
                                              call.in.months_between_visits) :
          Return(result)

AssessVfProgression ==
    /\ Starts("assess_vf_progression")
    /\ \E result \in assess_vf_progression(call.in.current, call.in.previous_measurements,
                                            call.in.months_between_visits) :
          Return(result)

InitProgression ==
    /\ \/ StartsProgression("assess_rnfl_progression", RnflValues)
       \/ StartsProgression("assess_vf_progression", MdValues)
    /\ NothingStored

NextProgression ==
    \/ AssessRnflProgression /\ UNCHANGED <<prev, target_pressures, now, sessions>>
    \/ AssessVfProgression /\ UNCHANGED <<prev, target_pressures, now, sessions>>

\* The two progression assessments, each called on its own.
SpecProgression == InitProgression /\ [][NextProgression]_vars

(***************************************************************************)
(* RiskEngine.calculate_risk_score.  The running score is kept in tenths   *)
(* (iop_severity * 1.3 is 13 tenths per point); the fluctuation is in      *)
(* tenths of mmHg.  On the severities used the float sum truncates as the  *)
(* decimal one does.                                                       *)
(***************************************************************************)
\* Lines 170-174
IopReasons(iop_status, iop_severity) ==
    IF iop_status = "ABOVE_TARGET"
    THEN IF iop_severity >= 20 THEN <<"IOP significantly above target">>
         ELSE <<"IOP above target range">>
    ELSE <<>>

\* Lines 178-181
RnflReasons(rnfl_status) ==
    IF rnfl_status = "PROGRESSIVE" THEN <<"Significant RNFL thinning detected">>
    ELSE IF rnfl_status = "MARGINAL" THEN <<"Marginal RNFL changes observed">>
    ELSE <<>>

\* Lines 185-188
VfReasons(vf_status) ==
    IF vf_status = "PROGRESSIVE" THEN <<"Visual field deterioration">>
    ELSE IF vf_status = "MARGINAL" THEN <<"Borderline VF changes">>
    ELSE <<>>

\* Every disease severity scored as an unknown one.
DiseasePoints_AllDefault(disease_severity) == 5

\* Lines 191-192: severity_map.get(disease_severity, 5)
DiseasePoints(disease_severity) ==
    Get(("MILD" :> 0) @@ ("MODERATE" :> 3) @@ ("SEVERE" :> 10), disease_severity, 5)

\* Lines 193-194
DiseaseReasons(disease_severity) ==
    IF disease_severity = "SEVERE" THEN <<"Severe glaucoma at baseline">> ELSE <<>>

\* f"{pressure_fluctuation:.1f}" of a fluctuation given in tenths
FormatOneDecimal(tenths) == ToString(tenths \div 10) \o "." \o ToString(tenths % 10)

\* Lines 197-199: min(5, int(pressure_fluctuation)) when above 5 mmHg
FluctuationPoints(pressure_fluctuation) ==
    IF pressure_fluctuation > 50 THEN Min2(5, TruncDiv(pressure_fluctuation, 10)) ELSE 0

FluctuationReasons(pressure_fluctuation) ==
    IF pressure_fluctuation > 50
    THEN <<"High IOP fluctuation (" \o FormatOneDecimal(pressure_fluctuation) \o " mmHg)">>
    ELSE <<>>

\* Lines 202-204, on the score in tenths
AdherencePenalty(score, medication_adherence) ==
    IF medication_adherence = "POOR" THEN Min2(1000, score + 150) ELSE score

AdherenceReasons(medication_adherence) ==
    IF medication_adherence = "POOR" THEN <<"Poor medication adherence reported">> ELSE <<>>

\* A score beyond 100 wrapping around instead of being capped.
CapScore_Wrapping(score) == TruncDiv(score, 10) % 101

\* Line 207: min(100, int(score)), score in tenths
CapScore(score) == Min2(100, TruncDiv(score, 10))

\* Lines 210-215
RiskLevelOf(score) ==
    IF score < 30 THEN "LOW" ELSE IF score < 70 THEN "MODERATE" ELSE "HIGH"

\* Lines 217-218
OrStable(reasons) == IF reasons = <<>> THEN <<"Stable glaucoma control">> ELSE reasons

\* Returns (risk_level, risk_score, risk_reasons); a is the record of arguments.
calculate_risk_score(a) ==
    LET points == 13 * a.iop_severity
                    + 10 * (a.rnfl_severity + a.vf_severity
                            + DiseasePoints(a.disease_severity)
                            + FluctuationPoints(a.pressure_fluctuation))
        score == CapScore(AdherencePenalty(points, a.medication_adherence))
        reasons == IopReasons(a.iop_status, a.iop_severity)
                     \o RnflReasons(a.rnfl_status) \o VfReasons(a.vf_status)
                     \o DiseaseReasons(a.disease_severity)
                     \o FluctuationReasons(a.pressure_fluctuation)
                     \o AdherenceReasons(a.medication_adherence)
    IN  <<RiskLevelOf(score), score, OrStable(reasons)>>

\* Arguments: the statuses and severities the evaluations above return
\* (severities below 0 included, which evaluate_iop_status can return), a
\* severity far beyond any, known and unknown disease severities.
IopStatusValues == {"WITHIN_TARGET", "ABOVE_TARGET", "BELOW_TARGET"}
IopSeverityValues == {-19, -1} \cup 0..MaxLowSeverity \cup {20, 30, 90}
ProgressionStatusValues == {"BASELINE", "STABLE", "MARGINAL", "PROGRESSIVE"}
RnflSeverityValues == {0, 10, 13, 25}
VfSeverityValues == {0, 10, 17, 25}
DiseaseSeverityValues == {"MILD", "MODERATE", "SEVERE", Unrecognized}
FluctuationValues == {0, 50, 51, 80}
AdherenceValues == {"GOOD", "POOR"}

RiskArgs ==
    [iop_status : IopStatusValues, iop_severity : IopSeverityValues,
     rnfl_status : ProgressionStatusValues, rnfl_severity : RnflSeverityValues,
     vf_status : ProgressionStatusValues, vf_severity : VfSeverityValues,
     disease_severity : DiseaseSeverityValues,
     pressure_fluctuation : FluctuationValues,
     medication_adherence : AdherenceValues]

RiskCall(a) ==
    [fn |-> "calculate_risk_score", in |-> a, returned |-> FALSE, out |-> Pending]

CalculateRiskScore ==
    /\ Starts("calculate_risk_score")
    /\ Return(calculate_risk_score(call.in))

InitRisk == (\E a \in RiskArgs : call = RiskCall(a)) /\ NothingStored

NextRisk == CalculateRiskScore /\ UNCHANGED <<prev, target_pressures, now, sessions>>

\* calculate_risk_score called on its own.
SpecRisk == InitRisk /\ [][NextRisk]_vars

\* Arguments for a pair of calls.
RiskPairArgs ==
    [iop_status : {"ABOVE_TARGET"}, iop_severity : {-19, 0, 7, 20, 30, 90},
     rnfl_status : {"PROGRESSIVE"}, rnfl_severity : {0, 10, 25},
     vf_status : {"STABLE"}, vf_severity : {0, 10, 25},
     disease_severity : {"MILD", "SEVERE", Unrecognized},
     pressure_fluctuation : {0, 80},
     medication_adherence : AdherenceValues]

\* The caller scores once more, with whatever arguments.
CalculateRiskScoreAgain ==
    /\ call.fn = "calculate_risk_score" /\ call.returned
    /\ prev = NoCall
    /\ prev' = call /\ UNCHANGED <<target_pressures, now, sessions>>
    /\ \E a \in RiskPairArgs : call' = RiskCall(a)

InitRiskPair == (\E a \in RiskPairArgs : call = RiskCall(a)) /\ NothingStored

NextRiskPair == (CalculateRiskScore /\ UNCHANGED <<prev, target_pressures, now, sessions>>) \/ CalculateRiskScoreAgain

\* calculate_risk_score called once, and once again.
SpecRiskPair == InitRiskPair /\ [][NextRiskPair]_vars

(***************************************************************************)
(* RiskEngine.recommend_followup, called directly and as the last step of  *)
(* the route assess_patient_risk.                                          *)
(***************************************************************************)
\* The table without its ("HIGH", "SEVERE") entry.
followup_map_NoHighSevere ==
    (<<"LOW", "MILD">> :> <<180, <<"Routine follow-up", "Annual VF and OCT">>>>)
    @@ (<<"LOW", "MODERATE">> :> <<120, <<"Routine follow-up", "Annual VF and OCT">>>>)
    @@ (<<"LOW", "SEVERE">> :> <<90, <<"3-monthly follow-up", "Semi-annual VF and OCT">>>>)
    @@ (<<"MODERATE", "MILD">> :>
          <<120, <<"4-monthly follow-up", "Annual VF and OCT", "Review medications">>>>)
    @@ (<<"MODERATE", "MODERATE">> :>
          <<90, <<"3-monthly follow-up", "Semi-annual VF and OCT", "Consider medication change">>>>)
    @@ (<<"MODERATE", "SEVERE">> :>
          <<60, <<"2-monthly follow-up", "Quarterly VF and OCT", "Urgently review therapy">>>>)
    @@ (<<"HIGH", "MILD">> :>
          <<60, <<"2-monthly follow-up", "Semi-annual VF and OCT", "Urgent medication review">>>>)
    @@ (<<"HIGH", "MODERATE">> :>
          <<30, <<"Monthly follow-up", "Quarterly VF and OCT", "Consider laser/surgery">>>>)

\* Lines 232-244
followup_map ==
    followup_map_NoHighSevere
    @@ (<<"HIGH", "SEVERE">> :>
          <<14, <<"Urgent follow-up", "Monthly visits", "Urgent surgical consultation">>>>)

\* Lines 246-247: followup_map.get(key, (90, ["Schedule routine follow-up"]))
recommend_followup(risk_level, disease_severity) ==
    Get(followup_map, <<risk_level, disease_severity>>,
        <<90, <<"Schedule routine follow-up">>>>)

FollowupCall(risk_level, disease_severity) ==
    [fn |-> "recommend_followup",
     in |-> [risk_level |-> risk_level, disease_severity |-> disease_severity],
     returned |-> FALSE, out |-> Pending]

\* Direct calls: known and unknown levels and severities, None included.
FollowupCalls ==
    {FollowupCall(l, s) : l \in {"LOW", "MODERATE", "HIGH", Unrecognized, None},
                          s \in {"MILD", "MODERATE", "SEVERE", Unrecognized, None}}

RecommendFollowup ==
    /\ Starts("recommend_followup")
    /\ Return(recommend_followup(call.in.risk_level, call.in.disease_severity))
    /\ UNCHANGED <<prev, target_pressures, now, sessions>>

\* routes/risk.py line 196 / 203: patient.disease_severity or "MODERATE"
OrModerate(disease_severity) ==
    IF disease_severity \in {None, ""} THEN "MODERATE" ELSE disease_severity

\* The severities a patient record can hold: the column is a free string.
PatientSeverityValues == {None, "", "MILD", "MODERATE", "SEVERE", Unrecognized}

\* The risk scoring of the route: the patient's severity, defaulted.
RouteRiskArgs ==
    [iop_status : {"ABOVE_TARGET"}, iop_severity : {-19, 0, 7, 20, 30, 90},
     rnfl_status : {"PROGRESSIVE"}, rnfl_severity : {0, 10, 25},
     vf_status : {"STABLE"}, vf_severity : {0, 10, 25},
     disease_severity : {OrModerate(s) : s \in PatientSeverityValues},
     pressure_fluctuation : {0, 80},
     medication_adherence : AdherenceValues]

\* routes/risk.py lines 189-204: the route passes the level it was returned
\* and the same defaulted severity on to recommend_followup.
AssessPatientRiskFollowup ==
    /\ call.fn = "calculate_risk_score" /\ call.returned
    /\ prev = NoCall
    /\ prev' = call /\ UNCHANGED <<target_pressures, now, sessions>>
    /\ call' = FollowupCall(call.out[1], call.in.disease_severity)

InitFollowup ==
    /\ \/ call \in FollowupCalls
       \/ \E a \in RouteRiskArgs : call = RiskCall(a)
    /\ NothingStored

NextFollowup ==
    \/ RecommendFollowup
    \/ CalculateRiskScore /\ UNCHANGED <<prev, target_pressures, now, sessions>>
    \/ AssessPatientRiskFollowup

\* recommend_followup called on its own, and by assess_patient_risk after
\* calculate_risk_score.
SpecFollowup == InitFollowup /\ [][NextFollowup]_vars

(***************************************************************************)
(* The target routes (routes/targets.py) over the target_pressures table.  *)
(*                                                                         *)
(* target_pressures is the table in insertion order; ids are assigned by   *)
(* autoincrement and no route deletes a row, so the row at position i has  *)
(* id i.  A row keeps the columns the handlers branch on or compute; the   *)
(* columns a handler copies verbatim from the request and never reads      *)
(* (ranges, rationale, set_by, TRBS audit data, created_at) are left out.  *)
(* A nullable column holds <<>> for NULL and <<v>> for a value.  Target    *)
(* pressures of the table are in thousandths of mmHg (14.0 mmHg is 14000), *)
(* fine enough for differences on both sides of the 0.01 mmHg override     *)
(* threshold; the request values are ones whose float difference falls on  *)
(* the same side of the threshold as their decimal difference.  now is     *)
(* the value of datetime.utcnow() during the request being served; every   *)
(* request is served at a later time than the one before it.  Each action  *)
(* is one whole request, served serially; call records the last request    *)
(* and its response (status code and the id of the row it answers with).   *)
(***************************************************************************)
\* The patients table; no target route changes it.
Patients == {1, 2}

\* Patient ids in request paths: the patients and one id without a row.
RequestPatientIds == Patients \cup {3}

\* JSON bodies of set_target_pressure that pass TargetPressureCreate
\* (schemas.py lines 95-97: 0 < target <= 50 mmHg).
TargetPressureCreate == [target_iop_od : {12000}, target_iop_os : {14000}]

\* Query parameters of save_target_with_override (lines 249-258).
\* The calculated targets are 14.0 mmHg for both eyes; the final ones are
\* the same or 0.005 mmHg off (no override), 0.02 mmHg off or further
\* (override), in one eye, the other or both, with or without a reason.
SaveParameters ==
    {[calculated_target_od |-> 14000, calculated_target_os |-> 14000,
      final_target_od |-> p[1], final_target_os |-> p[2],
      override_reason |-> p[3]] :
        p \in {<<14000, 14005, <<"thin cornea">> >>,
               <<12000, 13995, <<"thin cornea">> >>,
               <<14000, 14020, <<>> >>,
               <<13980, 15000, <<"thin cornea">> >>}}

\* Bodies of update_target_pressure (schemas.py lines 132-143); <<>> is a
\* field the body does not set.
TargetPressureUpdate ==
    {[target_iop_od |-> u[1], is_overridden_os |-> u[2],
      override_reason |-> u[3]] :
        u \in {<< <<>>, <<>>, <<>> >>, << <<13000>>, <<>>, <<>> >>,
               << <<>>, <<"YES">>, <<"revised">> >>,
               << <<13000>>, <<"YES">>, <<>> >>}}

\* The response to a request: call' records it.
Respond(fn, in, status, target_id) ==
    call' = [fn |-> fn, in |-> in, returned |-> TRUE,
             out |-> [status |-> status, target_id |-> target_id]]

\* The request has been served: the clock moves on.
Served == now < MaxRequests /\ now' = now + 1 /\ UNCHANGED <<prev, sessions>>

\* db.query(Patient).filter(Patient.id == patient_id).first()
PatientExists(patient_id) == patient_id \in Patients

\* db.query(TargetPressure).filter(TargetPressure.id == target_id).first()
TargetExists(target_id) == target_id \in 1..Len(target_pressures)

\* The rows of a patient that are current (lines 30-33, 297-300, 70-73).
CurrentTargets(rows, patient_id) ==
    {i \in 1..Len(rows) : /\ rows[i].patient_id = patient_id
                          /\ rows[i].is_current = "YES"}

Invalidated_KeepsPrevious(rows, patient_id, t) == rows

Invalidated_Restamps(rows, patient_id, t) ==
    [i \in 1..Len(rows) |->
        IF rows[i].patient_id = patient_id
        THEN [rows[i] EXCEPT !.is_current = "NO", !.valid_to = <<t>>,
                             !.updated_at = t]
        ELSE rows[i]]

Invalidated_EveryPatient(rows, patient_id, t) ==
    [i \in 1..Len(rows) |->
        IF rows[i].is_current = "YES"
        THEN [rows[i] EXCEPT !.is_current = "NO", !.valid_to = <<t>>,
                             !.updated_at = t]
        ELSE rows[i]]

\* Lines 30-37 and 297-304: every current row of the patient becomes
\* historical and its validity window is closed; the UPDATE also stamps
\* updated_at (target_pressure.py line 64, onupdate).
Invalidated(rows, patient_id, t) ==
    [i \in 1..Len(rows) |->
        IF i \in CurrentTargets(rows, patient_id)
        THEN [rows[i] EXCEPT !.is_current = "NO", !.valid_to = <<t>>,
                             !.updated_at = t]
        ELSE rows[i]]

IsOverridden_AnyDifference(calculated, final) ==
    IF calculated # final THEN "YES" ELSE "NO"

\* Lines 293-294: a final target is an override when it differs from the
\* calculated one by more than 0.01 mmHg, 10 thousandths.
IsOverridden(calculated, final) ==
    IF Abs(calculated - final) > 10 THEN "YES" ELSE "NO"

\* The row inserted by set_target_pressure (lines 40-51); the columns the
\* handler does not pass take their defaults (target_pressure.py lines
\* 13-22 and 58-64).
NewTarget(id, patient_id, target, t) ==
    [id |-> id, patient_id |-> patient_id,
     target_iop_od |-> target.target_iop_od,
     target_iop_os |-> target.target_iop_os,
     calculated_target_od |-> <<>>, calculated_target_os |-> <<>>,
     is_overridden_od |-> "NO", is_overridden_os |-> "NO",
     override_reason |-> <<>>,
     is_current |-> "YES", valid_from |-> t, valid_to |-> <<>>,
     updated_at |-> t]

\* The row inserted by save_target_with_override (lines 318-351).
NewOverrideTarget(id, patient_id, p, t) ==
    LET is_overridden_od ==
            IsOverridden(p.calculated_target_od, p.final_target_od)
        is_overridden_os ==
            IsOverridden(p.calculated_target_os, p.final_target_os)
    IN  [id |-> id, patient_id |-> patient_id,
         target_iop_od |-> p.final_target_od,
         target_iop_os |-> p.final_target_os,
         calculated_target_od |-> <<p.calculated_target_od>>,
         calculated_target_os |-> <<p.calculated_target_os>>,
         is_overridden_od |-> is_overridden_od,
         is_overridden_os |-> is_overridden_os,
         override_reason |->
            IF is_overridden_od = "YES" \/ is_overridden_os = "YES"
            THEN p.override_reason ELSE <<>>,
         is_current |-> "YES", valid_from |-> t, valid_to |-> <<>>,
         updated_at |-> t]

Updated_UnsetAsNull(row, update, t) ==
    [row EXCEPT
        !.target_iop_od = IF update.target_iop_od = <<>> THEN @
                          ELSE update.target_iop_od[1],
        !.is_overridden_os = IF update.is_overridden_os = <<>> THEN @
                             ELSE update.is_overridden_os[1],
        !.override_reason = update.override_reason,
        !.updated_at = t]

\* Lines 124-128: setattr of every field the body sets, then updated_at.
Updated(row, update, t) ==
    [row EXCEPT
        !.target_iop_od = IF update.target_iop_od = <<>> THEN @
                          ELSE update.target_iop_od[1],
        !.is_overridden_os = IF update.is_overridden_os = <<>> THEN @
                             ELSE update.is_overridden_os[1],
        !.override_reason = IF update.override_reason = <<>> THEN @
                            ELSE update.override_reason,
        !.updated_at = t]

\* set_target_pressure, lines 15-56: 404 for an unknown patient; otherwise
\* the patient's current rows are invalidated, the new row is inserted as
\* current and both are committed together.
SetTargetPressure ==
    \E patient_id \in RequestPatientIds, target \in TargetPressureCreate :
        LET in == [patient_id |-> patient_id, target |-> target]
            id == Len(target_pressures) + 1
        IN  /\ Served
            /\ IF ~PatientExists(patient_id)
               THEN /\ Respond("set_target_pressure", in, 404, 0)
                    /\ UNCHANGED target_pressures
               ELSE /\ id <= MaxRecords
                    /\ target_pressures' =
                         Append(Invalidated(target_pressures, patient_id, now),
                                NewTarget(id, patient_id, target, now))
                    /\ Respond("set_target_pressure", in, 201, id)

\* save_target_with_override, lines 247-365.
SaveTargetWithOverride ==
    \E patient_id \in RequestPatientIds, p \in SaveParameters :
        LET in == [patient_id |-> patient_id, parameters |-> p]
            id == Len(target_pressures) + 1
        IN  /\ Served
            /\ IF ~PatientExists(patient_id)
               THEN /\ Respond("save_target_with_override", in, 404, 0)
                    /\ UNCHANGED target_pressures
               ELSE /\ id <= MaxRecords
                    /\ target_pressures' =
                         Append(Invalidated(target_pressures, patient_id, now),
                                NewOverrideTarget(id, patient_id, p, now))
                    /\ Respond("save_target_with_override", in, 200, id)

\* update_target_pressure, lines 101-131: 404 for an unknown id, 400 for
\* a historical row, otherwise the fields of the body are written.
UpdateTargetPressure ==
    \E target_id \in 1..(Len(target_pressures) + 1),
       update \in TargetPressureUpdate :
        LET in == [target_id |-> target_id, update |-> update]
        IN  /\ Served
            /\ IF ~TargetExists(target_id)
               THEN /\ Respond("update_target_pressure", in, 404, 0)
                    /\ UNCHANGED target_pressures
               ELSE IF target_pressures[target_id].is_current # "YES"
               THEN /\ Respond("update_target_pressure", in, 400, 0)
                    /\ UNCHANGED target_pressures
               ELSE /\ target_pressures' =
                         [target_pressures EXCEPT
                            ![target_id] = Updated(@, update, now)]
                    /\ Respond("update_target_pressure", in, 200, target_id)

\* deactivate_target, lines 133-150: 404 for an unknown id; a current row
\* becomes historical and its window is closed; a historical row is left
\* as it is; the answer is 204 either way.
DeactivateTarget ==
    \E target_id \in 1..(Len(target_pressures) + 1) :
        LET in == [target_id |-> target_id]
        IN  /\ Served
            /\ IF ~TargetExists(target_id)
               THEN /\ Respond("deactivate_target", in, 404, 0)
                    /\ UNCHANGED target_pressures
               ELSE IF target_pressures[target_id].is_current = "YES"
               THEN /\ target_pressures' =
                         [target_pressures EXCEPT
                            ![target_id].is_current = "NO",
                            ![target_id].valid_to = <<now>>,
                            ![target_id].updated_at = now]
                    /\ Respond("deactivate_target", in, 204, target_id)
               ELSE /\ Respond("deactivate_target", in, 204, target_id)
                    /\ UNCHANGED target_pressures

\* The application starts with an empty table and no request served.
InitTargets == call = NoCall /\ NothingStored

NextTargets ==
    \/ SetTargetPressure
    \/ SaveTargetWithOverride
    \/ UpdateTargetPressure
    \/ DeactivateTarget

\* Any serial sequence of requests to the four writing target routes.
SpecTargets == InitTargets /\ [][NextTargets]_vars

(***************************************************************************)
(* Two set-new-current-target requests in flight at once.                  *)
(*                                                                         *)
(* The handlers are plain def functions, which FastAPI runs on a thread    *)
(* pool, each with its own Session (database.py lines 17 and 23-28), and   *)
(* neither the handlers nor the table take a lock or declare a uniqueness  *)
(* constraint.  sessions holds one record per request in flight: its       *)
(* position in the handler (pc), the current rows its query returned and   *)
(* the time at which it marked them.  A session's changes reach the table  *)
(* at db.commit(), which flushes the UPDATEs of the rows it marked (by     *)
(* primary key) and the INSERT of its new row in one transaction.          *)
(***************************************************************************)
\* A request that has not started: the handler and its arguments.
NewSession(fn, patient_id, body) ==
    [fn |-> fn, patient_id |-> patient_id, body |-> body, pc |-> "start",
     previous_targets |-> {}, marked_at |-> 0, status |-> 0, target_id |-> 0]

\* The table before the two requests arrive: empty, or holding the current
\* target of one patient, set at time 0.
TablesBefore ==
    {<<>>} \cup
    {<<NewTarget(1, patient_id, target, 0)>> :
        patient_id \in Patients, target \in TargetPressureCreate}

\* Lines 21-33 and 285-300: the patient is looked up (404 when missing) and
\* the patient's current rows are read.
ReadCurrentTargets(s) ==
    /\ sessions[s].pc = "start"
    /\ sessions' =
         [sessions EXCEPT ![s] =
            IF ~PatientExists(sessions[s].patient_id)
            THEN [@ EXCEPT !.pc = "done", !.status = 404]
            ELSE [@ EXCEPT !.pc = "read",
                           !.previous_targets =
                               CurrentTargets(target_pressures,
                                              sessions[s].patient_id)]]
    /\ now' = now + 1
    /\ UNCHANGED <<call, prev, target_pressures>>

\* Lines 35-37 and 302-304: the rows read are marked historical in the
\* session; nothing reaches the table yet (autoflush is off).
MarkPreviousTargets(s) ==
    /\ sessions[s].pc = "read"
    /\ sessions' = [sessions EXCEPT ![s].pc = "marked",
                                    ![s].marked_at = now]
    /\ now' = now + 1
    /\ UNCHANGED <<call, prev, target_pressures>>

\* The table after a commit has flushed the UPDATEs of the rows a session
\* marked: each is written by primary key, whatever it holds by then.
MarkedHistorical(rows, ids, marked_at, t) ==
    [i \in 1..Len(rows) |->
        IF i \in ids
        THEN [rows[i] EXCEPT !.is_current = "NO", !.valid_to = <<marked_at>>,
                             !.updated_at = t]
        ELSE rows[i]]

\* Lines 40-55 and 318-354: the new row is built, added and committed
\* together with the marks.
CommitNewTarget(s) ==
    LET session == sessions[s]
        id == Len(target_pressures) + 1
        row == IF session.fn = "set_target_pressure"
               THEN NewTarget(id, session.patient_id, session.body, now)
               ELSE NewOverrideTarget(id, session.patient_id, session.body,
                                      now)
    IN  /\ session.pc = "marked"
        /\ target_pressures' =
             Append(MarkedHistorical(target_pressures,
                                     session.previous_targets,
                                     session.marked_at, now),
                    row)
        /\ sessions' =
             [sessions EXCEPT ![s].pc = "done",
                              ![s].target_id = id,
                              ![s].status =
                                  IF session.fn = "set_target_pressure"
                                  THEN 201 ELSE 200]
        /\ now' = now + 1
        /\ UNCHANGED <<call, prev>>

\* Two requests arrive, each for any patient id, through either route.
InitConcurrent ==
    /\ call = NoCall
    /\ prev = NoCall
    /\ now = 1
    /\ target_pressures \in TablesBefore
    /\ \E p1 \in RequestPatientIds, p2 \in RequestPatientIds,
          t1 \in TargetPressureCreate, t2 \in SaveParameters :
          \/ sessions = <<NewSession("set_target_pressure", p1, t1),
                          NewSession("set_target_pressure", p2, t1)>>
          \/ sessions = <<NewSession("set_target_pressure", p1, t1),
                          NewSession("save_target_with_override", p2, t2)>>
          \/ sessions = <<NewSession("save_target_with_override", p1, t2),
                          NewSession("save_target_with_override", p2, t2)>>

NextConcurrent ==
    \E s \in 1..2 :
        \/ ReadCurrentTargets(s)
        \/ MarkPreviousTargets(s)
        \/ CommitNewTarget(s)

\* Every interleaving of the steps of the two requests.
SpecConcurrent == InitConcurrent /\ [][NextConcurrent]_vars

(***************************************************************************)
(* calculate_domain_b called once, and once again, for comparing the       *)
(* scores of two baselines or two medication counts.                       *)
(***************************************************************************)
\* The caller scores another baseline pressure and medication count.
ScoreDomainBAgain ==
    /\ call.fn = "calculate_domain_b" /\ call.returned
    /\ prev = NoCall
    /\ prev' = call /\ UNCHANGED <<target_pressures, now, sessions>>
    /\ call' \in DomainBCalls

InitDomainBPair == call \in DomainBCalls /\ NothingStored

NextDomainBPair ==
    \/ ScoreDomainB /\ UNCHANGED <<prev, target_pressures, now, sessions>>
    \/ ScoreDomainBAgain

SpecDomainBPair == InitDomainBPair /\ [][NextDomainBPair]_vars

(***************************************************************************)
(* calculate_single_eye called once, and once again, for comparing the     *)
(* targets of two risk profiles at one baseline.                           *)
(***************************************************************************)
\* Baselines of the compared calls, tenths of mmHg.
EyePairBaselineIops == {0, 100, 250, 300, 305, 320}

\* Profiles from the least to the most risk in every domain but age, each
\* with either reduction of its tier.
EyePairArgs ==
    {[age |-> "over_70", family_history |-> "absent", num_agm |-> "0",
      cdr |-> cdr, notching |-> str[1], rnfl_defect |-> str[2],
      disc_hemorrhage |-> str[3],
      mean_deviation |-> fun[1], central_field |-> fun[2],
      patient_factors |-> <<>>,
      cct |-> ocu[1], myopia |-> ocu[2], ocular_modifiers |-> ocu[3],
      systemic_factors |-> sf,
      use_aggressive_reduction |-> agg] :
        cdr \in {"0.5_or_less", "0.8", "0.9_or_more"},
        str \in {<<"absent", "absent", "absent">>,
                 <<"bipolar", "present", "present">>},
        fun \in {<<"hfa_not_done", "no">>, <<"hfa_not_possible", "yes">>},
        ocu \in {<<"normal", "none", <<>>>>,
                 <<"thin", "mod_high_myopia",
                   <<"angle_recession", "pseudoexfoliation">>>>},
        sf \in {<<>>, <<"low_ocular_perfusion", "migraine_vasospasm",
                       "raynauds">>},
        agg \in BOOLEAN}

EyePairCalls ==
    {[fn |-> "calculate_single_eye",
      in |-> [eye |-> "OD", baseline_iop |-> b, a |-> a],
      returned |-> FALSE, out |-> Pending] :
        b \in EyePairBaselineIops, a \in EyePairArgs}

\* The caller calculates the eye once more, with another profile.
CalculateSingleEyeAgain ==
    /\ call.fn = "calculate_single_eye" /\ call.returned
    /\ prev = NoCall
    /\ prev' = call /\ UNCHANGED <<target_pressures, now, sessions>>
    /\ call' \in EyePairCalls

InitEyePair == call \in EyePairCalls /\ NothingStored

NextEyePair ==
    \/ CalculateSingleEye /\ UNCHANGED <<prev, target_pressures, now, sessions>>
    \/ CalculateSingleEyeAgain

SpecEyePair == InitEyePair /\ [][NextEyePair]_vars

(***************************************************************************)
(* assess_patient_risk (routes/risk.py), the whole request.                *)
(*                                                                         *)
(* The request carries, next to its parameters, what the handler reads     *)
(* from the tables it does not write: the patient's disease_severity and   *)
(* the patient's rows of iop_measurements, a function from the age of a    *)
(* measurement in days to its readings.  The current target is read from   *)
(* target_pressures.  Pressures, thicknesses and mean deviations are in    *)
(* tenths; a reading that is NULL is <<>>.  The response keeps, next to    *)
(* the fields of RiskAssessmentResponse, the per-eye evaluations and the   *)
(* arguments of every progression call the handler made.                   *)
(***************************************************************************)
\* Python truthiness of an optional number: neither None nor 0.
Truthy(x) == x # <<>> /\ x[1] # 0

RECURSIVE Bisect(_, _, _)
Bisect(n, lo, hi) ==
    IF hi - lo <= 1 THEN lo
    ELSE LET mid == (lo + hi) \div 2
         IN  IF mid * mid <= n THEN Bisect(n, mid, hi) ELSE Bisect(n, lo, mid)

\* The integer part of the square root of a number below 46340 * 46340.
ISqrt(n) == Bisect(n, 0, Min2(n + 1, 46340))

RECURSIVE SumOfSquares(_)
SumOfSquares(s) ==
    IF s = <<>> THEN 0 ELSE Head(s) * Head(s) + SumOfSquares(Tail(s))

RECURSIVE IopValues(_)
\* Lines 19-24: the truthy pressures of both eyes, measurement by measurement.
IopValues(measurements) ==
    IF measurements = <<>> THEN <<>>
    ELSE LET m == Head(measurements)
         IN  (IF Truthy(m.iop_od) THEN <<m.iop_od[1]>> ELSE <<>>)
             \o (IF Truthy(m.iop_os) THEN <<m.iop_os[1]>> ELSE <<>>)
             \o IopValues(Tail(measurements))

\* Lines 14-30: the population standard deviation of the pressures.  The
\* result is a float; the model hands the engine the tenth of mmHg below it
\* and, unless it is a whole number of tenths, the tenth above it as well.
calculate_pressure_fluctuation(measurements) ==
    LET values == IopValues(measurements)
        n == Len(values)
        radicand == n * SumOfSquares(values) - SeqSum(values) * SeqSum(values)
        root == ISqrt(radicand)
    IN  IF Len(measurements) < 2 \/ n < 2 THEN {0}
        ELSE IF root * root = radicand /\ root % n = 0 THEN {root \div n}
        ELSE {root \div n, root \div n + 1}

\* measurements[:6]
FirstSix(s) == SubSeq(s, 1, Min2(6, Len(s)))

RECURSIVE Ascending(_)
\* The elements of a set of numbers, in increasing order.
Ascending(S) ==
    IF S = {} THEN <<>>
    ELSE LET least == CHOOSE x \in S : \A y \in S : x <= y
         IN  <<least>> \o Ascending(S \ {least})

\* Lines 71-77: the measurements of the last 180 days, newest first.
RecentMeasurements(iop_measurements) ==
    LET days == Ascending({d \in DOMAIN iop_measurements : d <= 180})
    IN  [i \in 1..Len(days) |-> iop_measurements[days[i]]]

RECURSIVE LatestWithIop(_)
\* Lines 86-90: the first measurement with a pressure of either eye; <<>>
\* when there is none.
LatestWithIop(measurements) ==
    IF measurements = <<>> THEN <<>>
    ELSE IF Head(measurements).iop_od # <<>> \/ Head(measurements).iop_os # <<>>
         THEN <<Head(measurements)>>
         ELSE LatestWithIop(Tail(measurements))

\* Lines 99-104 and 106-111: an eye without a pressure or a target counts
\* as within target.
EyeIopOutcomes(measured, target_iop) ==
    IF Truthy(measured) /\ target_iop # 0
    THEN evaluate_iop_status(measured[1], target_iop, <<>>)
    ELSE {<<"WITHIN_TARGET", 0>>}

\* Lines 117-122.
CombinedIopStatus(od, os) ==
    IF od = "ABOVE_TARGET" \/ os = "ABOVE_TARGET" THEN "ABOVE_TARGET"
    ELSE IF od = "BELOW_TARGET" \/ os = "BELOW_TARGET" THEN "BELOW_TARGET"
    ELSE "WITHIN_TARGET"

\* Lines 148-153 and 177-182.
CombinedProgression(od, os) ==
    IF od = "PROGRESSIVE" \/ os = "PROGRESSIVE" THEN "PROGRESSIVE"
    ELSE IF od = "MARGINAL" \/ os = "MARGINAL" THEN "MARGINAL"
    ELSE IF od = "STABLE" \/ os = "STABLE" THEN "STABLE"
    ELSE "BASELINE"

RECURSIVE ReadingsOf(_, _)
\* [m.field for m in measurements if m.field], lines 134, 141, 163, 170.
ReadingsOf(measurements, field) ==
    IF measurements = <<>> THEN <<>>
    ELSE (IF Truthy(Head(measurements)[field])
          THEN <<Head(measurements)[field][1]>> ELSE <<>>)
         \o ReadingsOf(Tail(measurements), field)

\* history[1:]
History(history) == Tail(history)

\* Lines 133-138 (and 140-145, 162-167, 169-174): the progression calls of
\* one reading of one eye: none, or one call with the latest measurement's
\* reading as current value and the history after its first element.
\* Each is [current, previous_measurements, result].
ProgressionCalls(latest, measurements, field) ==
    LET history == ReadingsOf(measurements, field)
        assess(current, previous_measurements, months) ==
            IF field \in {"oct_rnfl_od", "oct_rnfl_os"}
            THEN assess_rnfl_progression(current, previous_measurements, months)
            ELSE assess_vf_progression(current, previous_measurements, months)
    IN  IF Truthy(latest[field]) /\ Len(measurements) > 1 /\ Len(history) > 1
        THEN {<<[current |-> latest[field][1],
                 previous_measurements |-> History(history),
                 result |-> r]>> :
                r \in assess(latest[field][1], History(history), 6)}
        ELSE {<<>>}

\* The (status, severity) of an eye: BASELINE, 0 unless a call replaced it.
ResultOf(calls) == IF calls = <<>> THEN <<"BASELINE", 0>> ELSE calls[1].result

\* Lines 98-214 for one choice e of what the engine calls returned: the two
\* pressure evaluations, the four progression calls and the fluctuation.
RiskAssessment(request, e) ==
    LET iop_od == e[1]
        iop_os == e[2]
        rnfl_od == e[3]
        rnfl_os == e[4]
        vf_od == e[5]
        vf_os == e[6]
        pressure_fluctuation == e[7]
        disease_severity == OrModerate(request.disease_severity)
        iop_status == CombinedIopStatus(iop_od[1], iop_os[1])
        iop_severity == Max2(iop_od[2], iop_os[2])
        risk == calculate_risk_score(
            [iop_status |-> iop_status,
             iop_severity |-> iop_severity,
             rnfl_status |-> CombinedProgression(ResultOf(rnfl_od)[1],
                                                 ResultOf(rnfl_os)[1]),
             rnfl_severity |-> Max2(ResultOf(rnfl_od)[2], ResultOf(rnfl_os)[2]),
             vf_status |-> CombinedProgression(ResultOf(vf_od)[1],
                                               ResultOf(vf_os)[1]),
             vf_severity |-> Max2(ResultOf(vf_od)[2], ResultOf(vf_os)[2]),
             disease_severity |-> disease_severity,
             pressure_fluctuation |-> pressure_fluctuation,
             medication_adherence |-> request.medication_adherence])
        followup == recommend_followup(risk[1], disease_severity)
    IN  [status |-> 200,
         risk_level |-> risk[1], risk_score |-> risk[2],
         current_iop_status |-> iop_status, reasons |-> risk[3],
         recommended_followup_days |-> followup[1],
         recommended_actions |-> followup[2],
         iop_od |-> iop_od, iop_os |-> iop_os, iop_severity |-> iop_severity,
         rnfl_od |-> rnfl_od, rnfl_os |-> rnfl_os,
         vf_od |-> vf_od, vf_os |-> vf_os]

\* The responses assess_patient_risk can give, lines 33-214.
assess_patient_risk(request, targets) ==
    LET current == CurrentTargets(targets, request.patient_id)
        measurements == RecentMeasurements(request.iop_measurements)
        found == LatestWithIop(measurements)
    IN  IF ~PatientExists(request.patient_id) THEN {[status |-> 404]}
        ELSE IF current = {} \/ measurements = <<>> \/ found = <<>>
        THEN {[status |-> 400]}
        ELSE LET latest == found[1] IN
             UNION {
               {RiskAssessment(request, <<iop_od, iop_os, rnfl_od, rnfl_os,
                                          vf_od, vf_os, pressure_fluctuation>>) :
                  iop_od \in EyeIopOutcomes(latest.iop_od,
                                            targets[t].target_iop_od \div 100),
                  iop_os \in EyeIopOutcomes(latest.iop_os,
                                            targets[t].target_iop_os \div 100),
                  rnfl_od \in ProgressionCalls(latest, measurements,
                                               "oct_rnfl_od"),
                  rnfl_os \in ProgressionCalls(latest, measurements,
                                               "oct_rnfl_os"),
                  vf_od \in ProgressionCalls(latest, measurements,
                                             "vf_md_od"),
                  vf_os \in ProgressionCalls(latest, measurements,
                                             "vf_md_os"),
                  pressure_fluctuation \in
                      calculate_pressure_fluctuation(FirstSix(measurements))} :
               t \in current}

\* A measurement: its date as days before the request, and its readings.
Measurement(days, iop_od, iop_os, oct_rnfl_od, oct_rnfl_os, vf_md_od, vf_md_os) ==
    [days |-> days, iop_od |-> iop_od, iop_os |-> iop_os,
     oct_rnfl_od |-> oct_rnfl_od, oct_rnfl_os |-> oct_rnfl_os,
     vf_md_od |-> vf_md_od, vf_md_os |-> vf_md_os]

\* What a visit can have recorded: both pressures with both eyes' scans and
\* fields; a high right and a low left pressure; a scan and a field without
\* any pressure; pressures on target after thinning; a left pressure only;
\* nothing at all.
Readings ==
    {<< <<150>>, <<150>>, <<900>>, <<900>>, <<-30>>, <<-30>> >>,
     << <<150>>, <<65>>, <<850>>, <<>>, <<>>, <<>> >>,
     << <<>>, <<>>, <<800>>, <<>>, <<-50>>, <<>> >>,
     << <<120>>, <<140>>, <<700>>, <<870>>, <<-80>>, <<>> >>,
     << <<>>, <<250>>, <<>>, <<>>, <<>>, <<>> >>,
     << <<>>, <<>>, <<>>, <<>>, <<>>, <<>> >>}

\* Dates of the visits, days before the request; the last is outside the
\* 180-day window.
VisitDays == {30, 90, 150, 200}

\* The patient's rows of iop_measurements: a visit or none at each date.
MeasurementTables ==
    UNION {[days -> Readings] : days \in SUBSET VisitDays}

\* Targets of 12.0 mmHg for the right eye and 14.0 or 20.0 for the left.
AssessedTargets == [target_iop_od : {12000}, target_iop_os : {14000, 20000}]

AssessRequest(patient_id, disease_severity, medication_adherence, table) ==
    [fn |-> "assess_patient_risk",
     in |-> [patient_id |-> patient_id,
             disease_severity |-> disease_severity,
             medication_adherence |-> medication_adherence,
             iop_measurements |->
                [d \in DOMAIN table |->
                    Measurement(d, table[d][1], table[d][2], table[d][3],
                                table[d][4], table[d][5], table[d][6])]],
     returned |-> FALSE, out |-> Pending]

AssessPatientRisk ==
    /\ Starts("assess_patient_risk")
    /\ \E response \in assess_patient_risk(call.in, target_pressures) :
          Return(response)
    /\ UNCHANGED <<prev, target_pressures, now, sessions>>

\* A request for patient 1 or for an unknown patient, with or without a
\* current target of patient 1.
InitAssess ==
    /\ \E patient_id \in {1, 3}, s \in {None, "SEVERE"},
          adherence \in {"GOOD", "POOR"}, table \in MeasurementTables :
          call = AssessRequest(patient_id, s, adherence, table)
    /\ prev = NoCall
    /\ now = 1
    /\ sessions = <<>>
    /\ \/ target_pressures = <<>>
       \/ \E target \in AssessedTargets :
             target_pressures = <<NewTarget(1, 1, target, 0)>>

NextAssess == AssessPatientRisk

SpecAssess == InitAssess /\ [][NextAssess]_vars

\* Every specification of the module starts from some invocation.
Init == InitDomain \/ InitEye \/ InitCalculate \/ InitIop \/ InitIopPair
            \/ InitProgression \/ InitRisk \/ InitRiskPair
            \/ InitFollowup \/ InitTargets \/ InitConcurrent
            \/ InitDomainBPair \/ InitEyePair \/ InitAssess

Next == NextDomain \/ NextEye \/ NextCalculate \/ NextIop \/ NextIopPair
            \/ NextProgression \/ NextRisk \/ NextRiskPair
            \/ NextFollowup \/ NextTargets \/ NextConcurrent
            \/ NextDomainBPair \/ NextEyePair \/ NextAssess

Spec == Init /\ [][Next]_vars

(***************************************************************************)
(* Properties of calculate_single_eye.                                     *)
(***************************************************************************)
EyeReturned == call.fn = "calculate_single_eye" /\ call.returned

\* C1: the score of an eye is in 1..39 and each of its seven domain scores
\* is within the bound of its domain, whatever the inputs.
C1_ScoresWithinBounds ==
    EyeReturned =>
        LET d == call.out.domain_scores
        IN  /\ call.out.trbs_score \in 1..39
            /\ d.demographic_risk \in 1..4
            /\ d.baseline_iop \in 0..4
            /\ d.structural_changes \in 0..9
            /\ d.functional_changes \in 0..6
            /\ d.patient_factors \in 0..3
            /\ d.ocular_modifiers \in 0..8
            /\ d.systemic_factors \in 0..5

\* Every domain at its bound, three of them through their cap, and the sum 39.
C1_Witness ==
    /\ EyeReturned
    /\ call.out.trbs_score = 39
    /\ Len(call.in.a.patient_factors) = 3
    /\ Len(call.in.a.ocular_modifiers) = 6
    /\ Len(call.in.a.systemic_factors) = 6

\* The tiers whose band holds the score.
TiersHolding(s) ==
    {t \in DOMAIN RISK_TIERS : RISK_TIERS[t].min_score <= s /\ s <= RISK_TIERS[t].max_score}

\* The tier and reduction range the bands 1-6, 7-12, 13-18, 19-39 give a score.
BandOf(s) ==
    IF s <= 6 THEN <<"Low", 20, 25>>
    ELSE IF s <= 12 THEN <<"Moderate", 30, 35>>
    ELSE IF s <= 18 THEN <<"High", 40, 45>>
    ELSE <<"Very High", 50, 50>>

\* C3: every score in 1..39 lies in the band of exactly one tier, which is
\* the tier get_risk_tier selects; the eye's result carries that tier, its
\* reduction range, and as reduction applied the maximum of the range when
\* aggressive and the minimum otherwise.
C3_OneTierPerScore ==
    EyeReturned =>
          LET band == BandOf(call.out.trbs_score)
          IN  /\ call.out.trbs_score \in 1..39
              /\ Cardinality(TiersHolding(call.out.trbs_score)) = 1
              /\ get_risk_tier(call.out.trbs_score) = band[1]
              /\ call.out.risk_tier = band[1]
              /\ call.out.reduction_percentage_min = band[2]
              /\ call.out.reduction_percentage_max = band[3]
              /\ call.out.reduction_applied =
                    IF call.in.a.use_aggressive_reduction THEN band[3] ELSE band[2]

\* An aggressive calculation on the first score of the High band applied 45.
C3_Witness ==
    /\ EyeReturned /\ call.in.a.use_aggressive_reduction
    /\ call.out.trbs_score = 13 /\ call.out.risk_tier = "High"
    /\ call.out.reduction_applied = 45

\* The percentage-based target of the returned call, before any cap.
RawTarget ==
    RoundHalfEven(call.in.baseline_iop * (100 - call.out.reduction_applied), 100)

\* The ceilings as the claim lists them, in tenths of mmHg.
ClaimedCeiling ==
    ("0.5_or_less" :> 180) @@ ("0.6" :> 180) @@ ("0.7" :> 160) @@ ("0.8" :> 140)
    @@ ("0.9_or_more" :> 120)

\* At or below 30 mmHg no ceiling acts: the target is the raw one, or 12 by
\* the Very High clamp.
NoCeilingBelow30 ==
    call.in.baseline_iop <= 300 =>
        \/ call.out.final_target = RawTarget
        \/ call.out.risk_tier = "Very High" /\ call.out.final_target = 120

\* baseline 32, cup-disc ratio 0.8, every other factor minimal, not aggressive
MinimalEyeAt32 ==
    /\ call.in.baseline_iop = 320
    /\ call.in.a = [age |-> "over_70", family_history |-> "absent", num_agm |-> "0",
                    cdr |-> "0.8", notching |-> "absent", rnfl_defect |-> "absent",
                    disc_hemorrhage |-> "absent", mean_deviation |-> "hfa_not_done",
                    central_field |-> "no", patient_factors |-> <<>>,
                    cct |-> "normal", myopia |-> "none", ocular_modifiers |-> <<>>,
                    systemic_factors |-> <<>>, use_aggressive_reduction |-> FALSE]

\* C4 as claimed: above 30 mmHg the target is min(raw target, ceiling of the
\* cup-disc ratio); at or below, no ceiling is applied; the example gives 14.
C4_TargetIsMinOfRawAndCeiling ==
    EyeReturned =>
        /\ (call.in.baseline_iop > 300 /\ call.in.a.cdr \in DOMAIN ClaimedCeiling) =>
              call.out.final_target = Min2(RawTarget, ClaimedCeiling[call.in.a.cdr])
        /\ NoCeilingBelow30
        /\ MinimalEyeAt32 => call.out.final_target = 140

\* C4 amended: above 30 mmHg the target is min(raw target, ceiling), lowered
\* further to 12 when the eye is Very High and that minimum exceeds 12; the
\* ceiling is 18, 18, 16, 14, 12 by cup-disc ratio and 18 for an unrecognized
\* ratio; at or below 30 no ceiling is applied; the example gives 14.
C4_TargetIsMinOfRawCeilingAndClamp ==
    EyeReturned =>
        /\ call.in.baseline_iop > 300 =>
              LET ceiling == Get(ClaimedCeiling, call.in.a.cdr, 180)
                  capped == Min2(RawTarget, ceiling)
              IN  call.out.final_target =
                     IF call.out.risk_tier = "Very High" THEN Min2(capped, 120) ELSE capped
        /\ NoCeilingBelow30
        /\ MinimalEyeAt32 => call.out.final_target = 140

\* The example: a Moderate eye whose raw target 22.4 was cut to the ceiling 14.
C4_Witness ==
    /\ EyeReturned /\ MinimalEyeAt32
    /\ call.out.risk_tier = "Moderate" /\ RawTarget = 224
    /\ call.out.final_target = 140

\* C5: an eye is Very High exactly from score 19 on, and a Very High eye's
\* calculated and final targets are at most 12 mmHg, also at baselines of 30
\* or less and whatever the aggressive flag; the clamp follows the ceiling.
C5_VeryHighAtMost12 ==
    EyeReturned =>
        /\ call.out.risk_tier = "Very High" <=> call.out.trbs_score >= 19
        /\ call.out.risk_tier = "Very High" =>
              /\ call.out.calculated_target <= 120
              /\ call.out.final_target <= 120
              /\ call.out.final_target =
                    Min2(120, ApplyUpperCap(
                                  get_upper_cap_for_cdr(call.in.a.cdr, call.in.baseline_iop),
                                  RawTarget))

\* A Very High eye at baseline 30, where no ceiling applies: raw target 15,
\* returned target 12.
C5_Witness ==
    /\ EyeReturned /\ call.out.risk_tier = "Very High"
    /\ call.in.baseline_iop = 300 /\ RawTarget = 150
    /\ call.out.final_target = 120

(***************************************************************************)
(* Properties of calculate.                                                *)
(***************************************************************************)
SharedKeys ==
    {"age", "family_history", "num_agm", "patient_factors", "systemic_factors",
     "use_aggressive_reduction"}

OdKeys ==
    {"baseline_iop_od", "cdr_od", "notching_od", "rnfl_defect_od", "disc_hemorrhage_od",
     "mean_deviation_od", "central_field_od", "cct_od", "myopia_od",
     "ocular_modifiers_od"}

OsKeys ==
    {"baseline_iop_os", "cdr_os", "notching_os", "rnfl_defect_os", "disc_hemorrhage_os",
     "mean_deviation_os", "central_field_os", "cct_os", "myopia_os",
     "ocular_modifiers_os"}

LegacyKeys ==
    {"cdr", "notching", "rnfl_defect", "disc_hemorrhage", "mean_deviation",
     "central_field", "cct", "myopia", "ocular_modifiers"}

NoLegacy(k) == \A f \in LegacyKeys : ~Passed(k[f])

AgreeOn(k1, k2, keys) == \A f \in keys : k1[f] = k2[f]

CalculateReturned == call.fn = "calculate" /\ call.returned

\* Two calculations without legacy arguments, both returned.
TwoPlainCalculations ==
    /\ CalculateReturned /\ prev.fn = "calculate" /\ prev.returned
    /\ NoLegacy(call.in) /\ NoLegacy(prev.in)

\* C6: of two calculations without legacy arguments that agree on the shared
\* and the right-eye inputs, the right-eye results are identical whatever the
\* left-eye inputs; and the same with the eyes exchanged.
C6_EyesIndependent ==
    TwoPlainCalculations =>
        /\ AgreeOn(call.in, prev.in, SharedKeys \cup OdKeys) =>
              call.out.od_result = prev.out.od_result
        /\ AgreeOn(call.in, prev.in, SharedKeys \cup OsKeys) =>
              call.out.os_result = prev.out.os_result

\* The same right eye beside a healthy and then an advanced left eye: the
\* left results differ, the right result is the same.
C6_Witness ==
    /\ TwoPlainCalculations
    /\ AgreeOn(call.in, prev.in, SharedKeys \cup OdKeys)
    /\ call.in.cdr_os = "0.9_or_more" /\ prev.in.cdr_os = "0.5_or_less"
    /\ call.out.os_result.trbs_score > prev.out.os_result.trbs_score
    /\ call.out.od_result = prev.out.od_result

\* The legacy view of the result is that of eye e.
LegacyViewOf(e) ==
    /\ call.out.trbs_score = e.trbs_score
    /\ call.out.risk_tier = e.risk_tier
    /\ call.out.reduction_percentage_min = e.reduction_percentage_min
    /\ call.out.reduction_percentage_max = e.reduction_percentage_max
    /\ call.out.domain_scores = e.domain_scores

\* C7: the legacy single-value fields (score, tier, reduction range, domain
\* scores) are those of the worse eye, an eye with the higher score.
C7_LegacyFieldsOfWorseEye ==
    CalculateReturned =>
        \E e \in {call.out.od_result, call.out.os_result} :
            /\ e.trbs_score >= call.out.od_result.trbs_score
            /\ e.trbs_score >= call.out.os_result.trbs_score
            /\ LegacyViewOf(e)

(***************************************************************************)
(* Properties of evaluate_iop_status.                                      *)
(***************************************************************************)
\* A call with the default tolerance has returned.
IopReturned ==
    call.fn = "evaluate_iop_status" /\ call.returned /\ call.in.tolerance = <<>>

\* measured - target and max(2.0, 0.15 x target), in thousandths of mmHg
IopDifference == 100 * (call.in.measured_iop - call.in.target_iop)
IopTolerance == IF 15 * call.in.target_iop > 2000 THEN 15 * call.in.target_iop ELSE 2000

C10_SeverityInRange ==
    IopReturned =>
        /\ call.out[1] = "ABOVE_TARGET" => call.out[2] \in 0..30
        /\ call.out[1] = "BELOW_TARGET" => call.out[2] \in 0..20
        /\ call.out[1] = "WITHIN_TARGET" => call.out[2] = 0

(***************************************************************************)
(* Properties of the domain scoring functions.                             *)
(***************************************************************************)
\* The table behind each categorical argument.
FieldTable ==
    [age |-> AGE_SCORES, family_history |-> FAMILY_HISTORY_SCORES,
     num_agm |-> AGM_ADJUSTMENT, cdr |-> CDR_SCORES, notching |-> NOTCHING_SCORES,
     rnfl_defect |-> RNFL_DEFECT_SCORES, disc_hemorrhage |-> DISC_HEMORRHAGE_SCORES,
     mean_deviation |-> MEAN_DEVIATION_SCORES, central_field |-> CENTRAL_FIELD_SCORES,
     cct |-> CCT_SCORES, myopia |-> MYOPIA_SCORES]

\* The entries each list argument recognizes.
ListKnown ==
    [patient_factors |-> DOMAIN PATIENT_FACTOR_SCORES,
     ocular_modifiers |-> OCULAR_MODIFIERS,
     systemic_factors |-> SYSTEMIC_FACTORS]

\* The score the called domain function gives the arguments in.
DomainScore(fn, in) ==
    CASE fn = "calculate_domain_a" -> calculate_domain_a(in.age, in.family_history)
      [] fn = "calculate_domain_b" -> calculate_domain_b(in.baseline_iop, in.num_agm)
      [] fn = "calculate_domain_c" ->
            calculate_domain_c(in.cdr, in.notching, in.rnfl_defect, in.disc_hemorrhage)
      [] fn = "calculate_domain_d" -> calculate_domain_d(in.mean_deviation, in.central_field)
      [] fn = "calculate_domain_e" -> calculate_domain_e(in.patient_factors)
      [] fn = "calculate_domain_f_ocular" ->
            calculate_domain_f_ocular(in.cct, in.myopia, in.ocular_modifiers)
      [] fn = "calculate_domain_g_systemic" -> calculate_domain_g_systemic(in.systemic_factors)

DomainFns ==
    {"calculate_domain_a", "calculate_domain_b", "calculate_domain_c",
     "calculate_domain_d", "calculate_domain_e", "calculate_domain_f_ocular",
     "calculate_domain_g_systemic"}

DomainReturned == call.fn \in DomainFns /\ call.returned

\* A recognized value of the table with the smallest score.
LowestKey(table) == CHOOSE k \in DOMAIN table : \A j \in DOMAIN table : table[k] <= table[j]

HighestScore(table) ==
    CHOOSE v \in {table[k] : k \in DOMAIN table} : \A j \in DOMAIN table : table[j] <= v

\* The list without the entries the domain does not recognize.
KnownOnly(list, known) == SelectSeq(list, LAMBDA x : x \in known)

\* Categorical arguments of the call whose value the table does not know.
UnknownFields == {f \in DOMAIN call.in \cap DOMAIN FieldTable : call.in[f] \notin DOMAIN FieldTable[f]}

\* The call scores as if argument f held the value v.
ScoresAsIf(f, v) == call.out = DomainScore(call.fn, [call.in EXCEPT ![f] = v])

\* Unrecognized entries of a list argument add nothing to the score.
UnknownEntriesAddNothing ==
    \A f \in DOMAIN call.in \cap DOMAIN ListKnown :
        ScoresAsIf(f, KnownOnly(call.in[f], ListKnown[f]))

\* C2 as claimed: a domain function scores an absent or unrecognized value of
\* any categorical argument (age included) as the lowest-scoring recognized
\* value of that argument, and an unrecognized list entry as nothing.
C2_UnknownScoresLowest ==
    DomainReturned =>
        /\ \A f \in UnknownFields : ScoresAsIf(f, LowestKey(FieldTable[f]))
        /\ UnknownEntriesAddNothing

\* C2 amended: every categorical argument but the age scores an absent or
\* unrecognized value as its lowest-scoring recognized value (0 points), an
\* unrecognized list entry adds nothing, and an absent or unrecognized age
\* scores as the 50-to-70 bracket (2 points, not the lowest, 1); every call
\* returns a score.
C2_UnknownScoresLowestButAge ==
    DomainReturned =>
        /\ \A f \in UnknownFields \ {"age"} :
              /\ ScoresAsIf(f, LowestKey(FieldTable[f]))
              /\ FieldTable[f][LowestKey(FieldTable[f])] = 0
        /\ "age" \in UnknownFields => ScoresAsIf("age", "50_to_70")
        /\ UnknownEntriesAddNothing
        /\ call.out \in Nat

\* An unrecognized age with an unrecognized family history has returned 2.
C2_Witness ==
    /\ call.fn = "calculate_domain_a" /\ call.returned
    /\ call.in.age = Unrecognized /\ call.in.family_history = None
    /\ call.out = 2

\* C8 as claimed: the brackets "not performed" and "not possible" both score
\* the highest mean-deviation score, so the two give the same domain score.
C8_NotDoneScoresHigh ==
    (/\ call.fn = "calculate_domain_d" /\ call.returned
     /\ call.in.mean_deviation \in {"hfa_not_done", "hfa_not_possible"})
        => call.out = Min2(HighestScore(MEAN_DEVIATION_SCORES)
                           + Get(CENTRAL_FIELD_SCORES, call.in.central_field, 0), 6)

\* C8 amended: "not possible" scores 4, the high end of the mean-deviation
\* scale, while "not performed" scores 0, the low end: the functional score
\* of a not-performed test is the central-field score alone, 4 below that of
\* a not-possible test.
C8_NotDoneScoresZero ==
    (call.fn = "calculate_domain_d" /\ call.returned) =>
        LET central == Get(CENTRAL_FIELD_SCORES, call.in.central_field, 0)
        IN  /\ call.in.mean_deviation = "hfa_not_possible" => call.out = 4 + central
            /\ call.in.mean_deviation = "hfa_not_done" => call.out = central

\* A not-performed test with central involvement has returned 2.
C8_Witness ==
    /\ call.fn = "calculate_domain_d" /\ call.returned
    /\ call.in.mean_deviation = "hfa_not_done" /\ call.in.central_field = "yes"
    /\ call.out = 2

(***************************************************************************)
(* Properties of two evaluate_iop_status calls.                            *)
(***************************************************************************)
\* What a returned call measured beyond its tolerance band, in thousandths.
ExcessOf(c) ==
    100 * (c.in.measured_iop - c.in.target_iop)
        - (IF 15 * c.in.target_iop > 2000 THEN 15 * c.in.target_iop ELSE 2000)

TwoAboveEvaluations ==
    /\ prev.fn = "evaluate_iop_status" /\ call.fn = "evaluate_iop_status"
    /\ call.returned
    /\ prev.out[1] = "ABOVE_TARGET" /\ call.out[1] = "ABOVE_TARGET"

\* C11: of two ABOVE_TARGET evaluations with the same excess beyond the
\* tolerance band the one with the lower target has a severity greater than
\* or equal to the other's (so strictly greater unless the two are equal);
\* and severity(measured 25, target 14) > severity(measured 25, target 20).
C11_LowerTargetSteeper ==
    TwoAboveEvaluations =>
        /\ (ExcessOf(prev) = ExcessOf(call) /\ prev.in.target_iop < call.in.target_iop)
              => prev.out[2] >= call.out[2]
        /\ (ExcessOf(prev) = ExcessOf(call) /\ call.in.target_iop < prev.in.target_iop)
              => call.out[2] >= prev.out[2]
        /\ (/\ prev.in.measured_iop = 250 /\ prev.in.target_iop = 140
            /\ call.in.measured_iop = 250 /\ call.in.target_iop = 200)
              => prev.out[2] > call.out[2]

\* Excess 3.0 at target 10 (measured 15) scored 13, at target 20 (measured 26)
\* it scored 7.
C11_Witness ==
    /\ TwoAboveEvaluations
    /\ prev.in.target_iop = 100 /\ prev.in.measured_iop = 150
    /\ call.in.target_iop = 200 /\ call.in.measured_iop = 260
    /\ ExcessOf(prev) = 3000 /\ ExcessOf(call) = 3000
    /\ prev.out = <<"ABOVE_TARGET", 13>> /\ call.out = <<"ABOVE_TARGET", 7>>

(***************************************************************************)
(* Properties of the progression assessments.                              *)
(***************************************************************************)
ProgressionFns == {"assess_rnfl_progression", "assess_vf_progression"}

ProgressionReturned == call.fn \in ProgressionFns /\ call.returned

\* The call had a trend to assess: two or more earlier measurements.
TrendAssessed(fn) ==
    call.fn = fn /\ call.returned /\ Len(call.in.previous_measurements) >= 2

\* current minus the most recent earlier measurement, in tenths, and the
\* months the code divides by.
TrendDelta ==
    call.in.current
        - call.in.previous_measurements[Len(call.in.previous_measurements)]

TrendMonths ==
    IF call.in.months_between_visits < 1 THEN 1 ELSE call.in.months_between_visits

\* What the call can return when it is made with months_between_visits = 1.
OutcomesAtOneMonth ==
    IF call.fn = "assess_rnfl_progression"
    THEN assess_rnfl_progression(call.in.current, call.in.previous_measurements, 1)
    ELSE assess_vf_progression(call.in.current, call.in.previous_measurements, 1)

\* C12: with no or one earlier measurement both assessments return
\* (BASELINE, 0), whatever the current value and the months between visits;
\* months of 0 or less are floored to 1: with a trend to assess, such a call
\* returns what the call with one month returns.
C12_BaselineWithoutTrend ==
    ProgressionReturned =>
        /\ Len(call.in.previous_measurements) <= 1 => call.out = <<"BASELINE", 0>>
        /\ (Len(call.in.previous_measurements) >= 2 /\ call.in.months_between_visits < 1)
              => call.out \in OutcomesAtOneMonth

\* A mean deviation 6 dB below the single earlier one, zero months apart,
\* has returned (BASELINE, 0).
C12_Witness ==
    /\ call.fn = "assess_vf_progression" /\ call.returned
    /\ call.in.current = -90 /\ call.in.previous_measurements = <<-30>>
    /\ call.in.months_between_visits = 0
    /\ call.out = <<"BASELINE", 0>>

\* C13: with c = (current - prior) / max(months, 1) x 12, assess_vf_progression
\* returns PROGRESSIVE with severity min(25, |c| x 10) when c < -1.0, MARGINAL
\* with severity 10 when -1.0 <= c < -0.5, otherwise STABLE with severity 0;
\* current -9, prior -6, six months apart is PROGRESSIVE.
\* (c = 12 * TrendDelta / (10 * TrendMonths); |c| x 10 = 12 |TrendDelta| / TrendMonths.)
C13_VfClassification ==
    TrendAssessed("assess_vf_progression") =>
        /\ 12 * TrendDelta < -10 * TrendMonths =>
              /\ call.out[1] = "PROGRESSIVE"
              /\ call.out[2] * TrendMonths = Min2(25 * TrendMonths, 12 * Abs(TrendDelta))
        /\ (12 * TrendDelta >= -10 * TrendMonths /\ 24 * TrendDelta < -10 * TrendMonths)
              => call.out = <<"MARGINAL", 10>>
        /\ 24 * TrendDelta >= -10 * TrendMonths => call.out = <<"STABLE", 0>>
        /\ (call.in.current = -90 /\ TrendDelta = -30 /\ call.in.months_between_visits = 6)
              => call.out[1] = "PROGRESSIVE"

\* C14: with loss = (prior - current) / max(months, 1) x 12,
\* assess_rnfl_progression returns PROGRESSIVE with severity min(25, loss x 5)
\* when loss > 2.0, MARGINAL with severity 10 when 1.0 < loss <= 2.0, otherwise
\* STABLE with severity 0; a current thickness at or above the prior one is
\* STABLE.  (loss x 5 = 6 * (-TrendDelta) / TrendMonths.)
C14_RnflClassification ==
    TrendAssessed("assess_rnfl_progression") =>
        /\ 12 * (-TrendDelta) > 20 * TrendMonths =>
              /\ call.out[1] = "PROGRESSIVE"
              /\ call.out[2] * TrendMonths = Min2(25 * TrendMonths, 6 * (-TrendDelta))
        /\ (12 * (-TrendDelta) <= 20 * TrendMonths /\ 12 * (-TrendDelta) > 10 * TrendMonths)
              => call.out = <<"MARGINAL", 10>>
        /\ 12 * (-TrendDelta) <= 10 * TrendMonths => call.out = <<"STABLE", 0>>
        /\ TrendDelta >= 0 => call.out = <<"STABLE", 0>>

(***************************************************************************)
(* Properties of calculate_risk_score.                                     *)
(***************************************************************************)
RiskReturned == call.fn = "calculate_risk_score" /\ call.returned

RiskLevels == {"LOW", "MODERATE", "HIGH"}

\* The claimed score in tenths, before the adherence penalty and the cap.
ClaimedPoints(a) ==
    13 * a.iop_severity + 10 * (a.rnfl_severity + a.vf_severity)
      + 10 * (CASE a.disease_severity = "MILD" -> 0
                [] a.disease_severity = "MODERATE" -> 3
                [] a.disease_severity = "SEVERE" -> 10)
      + (IF a.pressure_fluctuation > 50
         THEN (IF a.pressure_fluctuation < 50 THEN a.pressure_fluctuation ELSE 50)
         ELSE 0)

\* C15: for severities >= 0 and a disease severity of MILD, MODERATE or SEVERE
\* the score is min(100, trunc(1.3 iop + rnfl + vf + d + f)), with 15 added and
\* capped at 100 before truncation when adherence is POOR; the level is LOW
\* below 30, MODERATE from 30 to below 70, HIGH from 70.
C15_ScoreFormula ==
    (/\ RiskReturned
     /\ call.in.iop_severity >= 0 /\ call.in.rnfl_severity >= 0 /\ call.in.vf_severity >= 0
     /\ call.in.disease_severity \in {"MILD", "MODERATE", "SEVERE"}) =>
        LET points == ClaimedPoints(call.in)
            penalized == IF call.in.medication_adherence = "POOR"
                         THEN (IF points + 150 < 1000 THEN points + 150 ELSE 1000)
                         ELSE points
            score == IF penalized \div 10 < 100 THEN penalized \div 10 ELSE 100
        IN  /\ call.out[2] = score
            /\ score < 30 => call.out[1] = "LOW"
            /\ (30 <= score /\ score < 70) => call.out[1] = "MODERATE"
            /\ score >= 70 => call.out[1] = "HIGH"

\* 9.1 + 13 + 17 + 3 + 5 and 15 for poor adherence: 62.1, scored 62, MODERATE.
C15_Witness ==
    /\ RiskReturned
    /\ call.in.iop_severity = 7 /\ call.in.rnfl_severity = 13 /\ call.in.vf_severity = 17
    /\ call.in.disease_severity = "MODERATE" /\ call.in.pressure_fluctuation = 51
    /\ call.in.medication_adherence = "POOR"
    /\ call.out[1] = "MODERATE" /\ call.out[2] = 62

\* C16: for every input, out-of-range severities included, the score is in
\* 0..100 and the level is one of LOW, MODERATE, HIGH.
C16_ScoreClamped ==
    RiskReturned => call.out[2] \in 0..100 /\ call.out[1] \in RiskLevels

\* The two calls differ in the severity argument f alone, raised from the
\* earlier call to the later one.
RaisedOnly(f) ==
    /\ prev.fn = "calculate_risk_score" /\ RiskReturned
    /\ prev.in[f] < call.in[f]
    /\ [prev.in EXCEPT ![f] = call.in[f]] = call.in

LevelRank == ("LOW" :> 1) @@ ("MODERATE" :> 2) @@ ("HIGH" :> 3)

\* C17: raising iop_severity, rnfl_severity or vf_severity with every other
\* argument fixed lowers neither the score nor the level.
C17_MonotoneInSeverity ==
    \A f \in {"iop_severity", "rnfl_severity", "vf_severity"} :
        RaisedOnly(f) =>
            /\ prev.out[2] <= call.out[2]
            /\ LevelRank[prev.out[1]] <= LevelRank[call.out[1]]

\* The pressure severity raised from 7 to 30 took the score from 24 (LOW) to
\* 54 (MODERATE).
C17_Witness ==
    /\ RaisedOnly("iop_severity")
    /\ prev.in.iop_severity = 7 /\ call.in.iop_severity = 30
    /\ prev.out[1] = "LOW" /\ prev.out[2] = 24
    /\ call.out[1] = "MODERATE" /\ call.out[2] = 54

\* The abnormal signals of a call: those the claim lists, the pressure
\* status below target counted as contributing when its severity is not 0.
ContributingSignals(a) ==
    {s \in {"above", "below", "rnfl", "vf", "severe", "fluctuation", "adherence"} :
        \/ s = "above" /\ a.iop_status = "ABOVE_TARGET"
        \/ s = "below" /\ a.iop_status = "BELOW_TARGET" /\ a.iop_severity # 0
        \/ s = "rnfl" /\ a.rnfl_status \in {"PROGRESSIVE", "MARGINAL"}
        \/ s = "vf" /\ a.vf_status \in {"PROGRESSIVE", "MARGINAL"}
        \/ s = "severe" /\ a.disease_severity = "SEVERE"
        \/ s = "fluctuation" /\ a.pressure_fluctuation > 50
        \/ s = "adherence" /\ a.medication_adherence = "POOR"}

NoAbnormalSignal(a) ==
    /\ a.iop_status \notin {"ABOVE_TARGET", "BELOW_TARGET"}
    /\ a.rnfl_status \notin {"PROGRESSIVE", "MARGINAL"}
    /\ a.vf_status \notin {"PROGRESSIVE", "MARGINAL"}
    /\ a.disease_severity # "SEVERE"
    /\ a.pressure_fluctuation <= 50
    /\ a.medication_adherence # "POOR"

\* C18: the reasons are never empty, every contributing abnormal signal has
\* appended a reason of its own, and the single reason "Stable glaucoma
\* control" is returned exactly when no signal is abnormal.
C18_EverySignalHasReason ==
    RiskReturned =>
        /\ call.out[3] # <<>>
        /\ ContributingSignals(call.in) # {} =>
              /\ Len(call.out[3]) = Cardinality(ContributingSignals(call.in))
              /\ \A i \in 1..Len(call.out[3]) : call.out[3][i] # "Stable glaucoma control"
        /\ call.out[3] = <<"Stable glaucoma control">> <=> NoAbnormalSignal(call.in)

(***************************************************************************)
(* Properties of recommend_followup.                                       *)
(***************************************************************************)
FollowupReturned == call.fn = "recommend_followup" /\ call.returned

\* The nine entries as the table fixes them: days and actions.
ClaimedFollowup(risk_level, disease_severity) ==
    CASE risk_level = "LOW" /\ disease_severity = "MILD" ->
            <<180, <<"Routine follow-up", "Annual VF and OCT">>>>
      [] risk_level = "LOW" /\ disease_severity = "MODERATE" ->
            <<120, <<"Routine follow-up", "Annual VF and OCT">>>>
      [] risk_level = "LOW" /\ disease_severity = "SEVERE" ->
            <<90, <<"3-monthly follow-up", "Semi-annual VF and OCT">>>>
      [] risk_level = "MODERATE" /\ disease_severity = "MILD" ->
            <<120, <<"4-monthly follow-up", "Annual VF and OCT", "Review medications">>>>
      [] risk_level = "MODERATE" /\ disease_severity = "MODERATE" ->
            <<90, <<"3-monthly follow-up", "Semi-annual VF and OCT",
                    "Consider medication change">>>>
      [] risk_level = "MODERATE" /\ disease_severity = "SEVERE" ->
            <<60, <<"2-monthly follow-up", "Quarterly VF and OCT",
                    "Urgently review therapy">>>>
      [] risk_level = "HIGH" /\ disease_severity = "MILD" ->
            <<60, <<"2-monthly follow-up", "Semi-annual VF and OCT",
                    "Urgent medication review">>>>
      [] risk_level = "HIGH" /\ disease_severity = "MODERATE" ->
            <<30, <<"Monthly follow-up", "Quarterly VF and OCT", "Consider laser/surgery">>>>
      [] risk_level = "HIGH" /\ disease_severity = "SEVERE" ->
            <<14, <<"Urgent follow-up", "Monthly visits", "Urgent surgical consultation">>>>

InTheNine(risk_level, disease_severity) ==
    risk_level \in {"LOW", "MODERATE", "HIGH"}
        /\ disease_severity \in {"MILD", "MODERATE", "SEVERE"}

\* C19: for each of the nine (level, severity) pairs recommend_followup
\* returns the pair's table entry, for any other pair (90, ["Schedule routine
\* follow-up"]); and the pair assess_patient_risk passes for a patient whose
\* severity is recognized (or absent, then MODERATE) is one of the nine.
C19_FollowupTotal ==
    FollowupReturned =>
        /\ InTheNine(call.in.risk_level, call.in.disease_severity) =>
              call.out = ClaimedFollowup(call.in.risk_level, call.in.disease_severity)
        /\ ~InTheNine(call.in.risk_level, call.in.disease_severity) =>
              call.out = <<90, <<"Schedule routine follow-up">>>>
        /\ (/\ prev.fn = "calculate_risk_score"
            /\ prev.in.disease_severity \in {"MILD", "MODERATE", "SEVERE"}) =>
              /\ InTheNine(call.in.risk_level, call.in.disease_severity)
              /\ call.in.risk_level = prev.out[1]

\* The route scored a SEVERE patient HIGH and was told to see them in 14 days.
C19_Witness ==
    /\ FollowupReturned
    /\ prev.fn = "calculate_risk_score" /\ prev.out[1] = "HIGH"
    /\ prev.in.disease_severity = "SEVERE"
    /\ call.out[1] = 14 /\ call.out[2][1] = "Urgent follow-up"


(***************************************************************************)
(* Properties of the target routes.                                        *)
(***************************************************************************)
\* The rows of a patient.
TargetsOf(patient_id) ==
    {i \in 1..Len(target_pressures) :
        target_pressures[i].patient_id = patient_id}

\* The most recently inserted row of a patient that has one.
NewestOf(patient_id) ==
    CHOOSE i \in TargetsOf(patient_id) :
        \A j \in TargetsOf(patient_id) : j <= i

\* The last request inserted a row as the current target.
TargetWasSet ==
    /\ call.fn \in {"set_target_pressure", "save_target_with_override"}
    /\ call.out.status \in {200, 201}

\* C20 as stated: in every state reachable by a serial sequence of the
\* target routes, a patient for whom a target has been set has exactly
\* one target record with is_current = YES.
C20_ExactlyOneCurrent ==
    \A patient_id \in Patients :
        TargetsOf(patient_id) # {} =>
            Cardinality(CurrentTargets(target_pressures, patient_id)) = 1

\* C20 amended: in every state reachable by a serial sequence of the
\* target routes, a patient for whom a target has been set has at most
\* one target record with is_current = YES, and it can only be the most
\* recently set one; right after set_target_pressure or
\* save_target_with_override succeeds the patient has exactly one, the
\* record just created.  (deactivate_target leaves the patient with none.)
C20_AtMostOneCurrent ==
    /\ \A patient_id \in Patients :
          TargetsOf(patient_id) # {} =>
            CurrentTargets(target_pressures, patient_id)
                \subseteq {NewestOf(patient_id)}
    /\ TargetWasSet =>
          CurrentTargets(target_pressures, call.in.patient_id)
              = {call.out.target_id}

\* A second target has been set for a patient: the earlier one was
\* invalidated and the new one is the only current record.
C20_Witness ==
    /\ TargetWasSet
    /\ Cardinality(TargetsOf(call.in.patient_id)) = 2
    /\ Cardinality(CurrentTargets(target_pressures, call.in.patient_id)) = 1
    /\ \E i \in TargetsOf(call.in.patient_id) :
          /\ target_pressures[i].is_current = "NO"
          /\ target_pressures[i].valid_to = <<now - 1>>


\* save_target_with_override has stored a row.
SaveReturned ==
    /\ call.fn = "save_target_with_override"
    /\ call.out.status = 200

\* The row the last request answers with.
AnsweredRow == target_pressures[call.out.target_id]

\* The final target of an eye is more than 0.01 mmHg from the calculated one.
DiffersBeyondEpsilon(calculated, final) == Abs(calculated - final) > 10

\* The flags of the row save_target_with_override stored are the ones the
\* claim describes: each eye's from that eye's two targets alone.
FlagsFollowDifferences ==
    LET p == call.in.parameters
    IN  /\ AnsweredRow.is_overridden_od =
              (IF DiffersBeyondEpsilon(p.calculated_target_od,
                                       p.final_target_od)
               THEN "YES" ELSE "NO")
        /\ AnsweredRow.is_overridden_os =
              (IF DiffersBeyondEpsilon(p.calculated_target_os,
                                       p.final_target_os)
               THEN "YES" ELSE "NO")

SomeEyeOverridden ==
    \/ AnsweredRow.is_overridden_od = "YES"
    \/ AnsweredRow.is_overridden_os = "YES"

BothCommittedForOnePatient ==
    /\ sessions # <<>>
    /\ \A s \in 1..2 : sessions[s].pc = "done" /\ sessions[s].status # 404
    /\ sessions[1].patient_id = sessions[2].patient_id

\* C22: when two set-new-current-target requests for the same patient run
\* concurrently, each as read current records, mark them NO, insert the new
\* record, commit, then in every interleaving the final state has exactly
\* one record with is_current = YES for that patient.
C22_OneCurrentAfterConcurrentSets ==
    BothCommittedForOnePatient =>
        Cardinality(CurrentTargets(target_pressures,
                                   sessions[1].patient_id)) = 1


\* The step serves a set_target_pressure or save_target_with_override
\* request.
SetsTarget ==
    call'.fn \in {"set_target_pressure", "save_target_with_override"}

\* What C23 says of the table after such a request, against the table
\* before it.
SetPostState ==
    LET patient_id == call'.in.patient_id
        id == call'.out.target_id
        before == target_pressures
        after == target_pressures'
    IN  IF ~PatientExists(patient_id)
        THEN call'.out.status = 404 /\ after = before
        ELSE /\ call'.out.status \in {200, 201}
             /\ id = Len(before) + 1 /\ Len(after) = id
             /\ after[id].patient_id = patient_id
             /\ after[id].valid_to = <<>>
             /\ CurrentTargets(after, patient_id) = {id}
             /\ \A i \in CurrentTargets(before, patient_id) :
                   after[i].is_current = "NO" /\ after[i].valid_to # <<>>
             /\ \A i \in 1..Len(before) :
                   before[i].patient_id # patient_id => after[i] = before[i]

\* C23: immediately after a serial set_target_pressure or
\* save_target_with_override on an existing patient completes, the newly
\* created record is the only record of that patient with is_current = YES
\* and valid_to unset, and every record that was current before the call
\* now has is_current = NO and valid_to set; target records of other
\* patients are unchanged.  On an unknown patient the call fails with 404
\* and changes nothing.
C23_SetInvalidatesPrevious == [][SetsTarget => SetPostState]_vars

\* A target has been set for one patient while the other patient's current
\* target stayed as it was.
C23_Witness ==
    /\ TargetWasSet
    /\ Len(target_pressures) = 2
    /\ target_pressures[1].patient_id # target_pressures[2].patient_id
    /\ target_pressures[1].is_current = "YES"
    /\ target_pressures[1].updated_at = target_pressures[1].valid_from


\* The step serves an update_target_pressure request for an existing row.
UpdatesTarget ==
    /\ call'.fn = "update_target_pressure"
    /\ TargetExists(call'.in.target_id)

\* The fields an update body sets.
SuppliedFields(update) == {f \in DOMAIN update : update[f] # <<>>}

\* An update of a historical row is rejected with 400 and changes nothing;
\* an update of a current row leaves the other rows alone and changes, of
\* the row's columns outside the set exempt, only the ones the body sets.
UpdateChangesOnly(exempt) ==
    LET id == call'.in.target_id
        supplied == SuppliedFields(call'.in.update)
        before == target_pressures
        after == target_pressures'
    IN  IF before[id].is_current # "YES"
        THEN call'.out.status = 400 /\ after = before
        ELSE /\ call'.out.status = 200
             /\ Len(after) = Len(before)
             /\ \A i \in 1..Len(before) : i # id => after[i] = before[i]
             /\ \A f \in DOMAIN before[id] \ (supplied \cup exempt) :
                   after[id][f] = before[id][f]
             /\ after[id].is_current = before[id].is_current
             /\ after[id].valid_to = before[id].valid_to

\* C26 as stated: update_target_pressure on a record that is not current is
\* rejected with a 400 error and leaves every target record unchanged; on a
\* current record it changes only the supplied target/range/rationale/
\* override fields and never changes is_current, valid_to or any other
\* record.
C26_UpdateChangesOnlySupplied ==
    [][UpdatesTarget => UpdateChangesOnly({})]_vars

\* C26 amended: as stated, except that on a current record the update also
\* stamps updated_at with the time of the request, whatever the body sets.
C26_UpdateChangesSuppliedAndStamp ==
    [][UpdatesTarget => UpdateChangesOnly({"updated_at"})]_vars

\* A current row was updated by a body that sets its right-eye target and
\* nothing else, next to another row.
C26_Witness ==
    /\ call.fn = "update_target_pressure"
    /\ call.out.status = 200
    /\ SuppliedFields(call.in.update) = {"target_iop_od"}
    /\ AnsweredRow.target_iop_od = call.in.update.target_iop_od[1]
    /\ AnsweredRow.override_reason # <<>>
    /\ Len(target_pressures) = 2


\* Every row is current with an open validity window or historical with a
\* closed one.
WindowMatchesFlag ==
    \A i \in 1..Len(target_pressures) :
        /\ target_pressures[i].is_current \in {"YES", "NO"}
        /\ target_pressures[i].is_current = "NO"
              <=> target_pressures[i].valid_to # <<>>

\* No step removes a row, makes a historical row current or touches its
\* valid_to, and deactivate_target on a historical row changes nothing.
HistoricalStaysClosed ==
    /\ Len(target_pressures') >= Len(target_pressures)
    /\ \A i \in 1..Len(target_pressures) :
          target_pressures[i].is_current = "NO" =>
              /\ target_pressures'[i].is_current = "NO"
              /\ target_pressures'[i].valid_to = target_pressures[i].valid_to
    /\ ( /\ call'.fn = "deactivate_target"
         /\ TargetExists(call'.in.target_id)
         /\ target_pressures[call'.in.target_id].is_current = "NO" )
       => target_pressures' = target_pressures

\* C27: across any serial sequence of target routes, a target record that
\* has become historical never becomes current again and its validity
\* window is closed exactly once: is_current only ever changes from YES to
\* NO, is_current = NO holds exactly when valid_to is set, and once set
\* valid_to is never changed (a repeated deactivate_target on a historical
\* record changes nothing).
C27_WindowClosedOnce ==
    []WindowMatchesFlag /\ [][HistoricalStaysClosed]_vars

\* deactivate_target was repeated on a row whose window had been closed by
\* an earlier request.
C27_Witness ==
    /\ call.fn = "deactivate_target"
    /\ call.out.status = 204
    /\ AnsweredRow.is_current = "NO"
    /\ AnsweredRow.valid_to # <<>>
    /\ AnsweredRow.valid_to # <<now - 1>>


(***************************************************************************)
(* Properties of calculate_domain_b.                                       *)
(***************************************************************************)
\* The adjustment the claim gives for a medication count, mmHg.
ClaimedAdjustment(num_agm) ==
    CASE num_agm = "0" -> 0
      [] num_agm = "1" -> 5
      [] num_agm = "2" -> 8
      [] num_agm = "3_or_more" -> 10
      [] OTHER -> 0

\* The band of an untreated pressure in tenths of mmHg.
ClaimedBand(u) ==
    IF u < 220 THEN 0
    ELSE IF u < 240 THEN 1
    ELSE IF u < 260 THEN 2
    ELSE IF u < 280 THEN 3
    ELSE 4

\* The recognized medication counts, in order.
AgmRank == ("0" :> 0) @@ ("1" :> 1) @@ ("2" :> 2) @@ ("3_or_more" :> 3)

DomainBReturned == call.fn = "calculate_domain_b" /\ call.returned

TwoDomainBScores == DomainBReturned /\ prev.fn = "calculate_domain_b"

\* The second call has the same or more of everything the first has.
NoLessThan(first, second) ==
    /\ first.in.baseline_iop <= second.in.baseline_iop
    /\ \/ first.in.num_agm = second.in.num_agm
       \/ /\ first.in.num_agm \in DOMAIN AgmRank
          /\ second.in.num_agm \in DOMAIN AgmRank
          /\ AgmRank[first.in.num_agm] <= AgmRank[second.in.num_agm]

\* C25: calculate_domain_b scores the estimated untreated pressure
\* u = baseline + adjustment, with adjustment 0, 5, 8, 10 for medication
\* count 0, 1, 2, 3-or-more (0 for an unrecognized count): 0 when u < 22,
\* 1 when 22 <= u < 24, 2 when 24 <= u < 26, 3 when 26 <= u < 28, 4 when
\* u >= 28; the score is non-decreasing in the baseline and in the
\* medication count.
C25_UntreatedPressureBands ==
    /\ DomainBReturned =>
          call.out = ClaimedBand(call.in.baseline_iop
                                 + 10 * ClaimedAdjustment(call.in.num_agm))
    /\ TwoDomainBScores =>
          /\ NoLessThan(prev, call) => prev.out <= call.out
          /\ NoLessThan(call, prev) => call.out <= prev.out

\* A baseline of 17 mmHg scored 0 without medication and 2 on two
\* medications (untreated 17 + 8 = 25 mmHg).
C25_Witness ==
    /\ TwoDomainBScores
    /\ prev.in.baseline_iop = 170 /\ prev.in.num_agm = "0" /\ prev.out = 0
    /\ call.in.baseline_iop = 170 /\ call.in.num_agm = "2" /\ call.out = 2


(***************************************************************************)
(* Properties of two calculate_single_eye calls.                           *)
(***************************************************************************)
TwoEyes ==
    /\ call.fn = "calculate_single_eye" /\ call.returned
    /\ prev.fn = "calculate_single_eye"

\* Two calls with the same baseline, cup-disc ratio and aggressive flag;
\* the first has the higher score.
RiskierThan(first, second) ==
    /\ first.in.baseline_iop = second.in.baseline_iop
    /\ first.in.a.cdr = second.in.a.cdr
    /\ first.in.a.use_aggressive_reduction
          = second.in.a.use_aggressive_reduction
    /\ first.out.trbs_score > second.out.trbs_score

\* Two calls that differ in the aggressive flag alone; the first has it.
AggressiveTwinOf(first, second) ==
    /\ first.in.baseline_iop = second.in.baseline_iop
    /\ first.in.a.use_aggressive_reduction
    /\ ~second.in.a.use_aggressive_reduction
    /\ first.in.a = [second.in.a EXCEPT !.use_aggressive_reduction = TRUE]

AssessReturned == call.fn = "assess_patient_risk" /\ call.returned
Assessed == AssessReturned /\ call.out.status = 200

\* The measurements of the request's window, newest first, and the one the
\* handler takes as the latest.
WindowOf(request) == RecentMeasurements(request.iop_measurements)
LatestOf(request) == LatestWithIop(WindowOf(request))[1]

ProgressionFields == {"oct_rnfl_od", "oct_rnfl_os", "vf_md_od", "vf_md_os"}

\* The progression call made for a reading; <<>> when none was made.
CallFor(response, field) ==
    CASE field = "oct_rnfl_od" -> response.rnfl_od
      [] field = "oct_rnfl_os" -> response.rnfl_os
      [] field = "vf_md_od" -> response.vf_od
      [] field = "vf_md_os" -> response.vf_os

\* The prior the engine measures the change from (risk_engine.py:91, 127).
PriorUsed(c) == LastOf(c.previous_measurements)

\* C24: with three or more readings of an eye in the 180-day window, the
\* progression of that eye is computed from the two most recent points: the
\* latest reading is the current value and the most recent earlier reading
\* is the prior the change is measured from.
C24_TrendFromTwoMostRecent ==
    Assessed =>
        \A field \in ProgressionFields :
            LET readings == ReadingsOf(WindowOf(call.in), field)
                made == CallFor(call.out, field)
            IN  (Len(readings) >= 3 /\ made # <<>>) =>
                    /\ made[1].current = readings[1]
                    /\ PriorUsed(made[1]) = readings[2]

RECURSIVE IsSubsequence(_, _)
\* s can be obtained from t by leaving elements out.
IsSubsequence(s, t) ==
    IF s = <<>> THEN TRUE
    ELSE IF t = <<>> THEN FALSE
    ELSE IF Head(s) = Head(t) THEN IsSubsequence(Tail(s), Tail(t))
    ELSE IsSubsequence(s, Tail(t))

\* The readings of the measurements taken before the given one.
OlderReadings(measurements, latest, field) ==
    ReadingsOf(SelectSeq(measurements, LAMBDA m : m.days > latest.days), field)

\* C29: the prior values passed to assess_rnfl_progression and
\* assess_vf_progression are readings of measurements older than the one
\* whose reading is the current value, and of no other measurement.
C29_PriorsAreOlderReadings ==
    Assessed =>
        \A field \in ProgressionFields :
            LET made == CallFor(call.out, field)
            IN  made # <<>> =>
                    IsSubsequence(made[1].previous_measurements,
                                  OlderReadings(WindowOf(call.in),
                                                LatestOf(call.in), field))

SignificantlyAbove(eye) == eye[1] = "ABOVE_TARGET" /\ eye[2] >= 20

\* C30: when the combined status is ABOVE_TARGET the combined severity is
\* that of an eye above target, and "IOP significantly above target" is
\* reported only if an eye above target has a severity of 20 or more.
C30_SeverityOfTheEyeAbove ==
    Assessed =>
        /\ call.out.current_iop_status = "ABOVE_TARGET" =>
              \E eye \in {call.out.iop_od, call.out.iop_os} :
                  eye = <<"ABOVE_TARGET", call.out.iop_severity>>
        /\ (\E i \in DOMAIN call.out.reasons :
                call.out.reasons[i] = "IOP significantly above target") =>
              (SignificantlyAbove(call.out.iop_od)
                 \/ SignificantlyAbove(call.out.iop_os))

====
